---- MODULE Spec2Model ----
(***************************************************************************)
(* A model of SBSView's wire-protocol engine and telemetry data path:      *)
(*   - the streaming frame codec   (sbs_uart/src/frame_decoder.rs)         *)
(*   - the serial worker           (sbs_uart/src/serial_worker.rs)         *)
(*   - the client facade           (sbs_uart/src/sbs_uart.rs)              *)
(*   - the typed signal decoder    (sbs_core/src/{ty,decode,value}.rs)     *)
(*   - the sliding-window buffer   (sbs_view/src/signals/window_buffer.rs) *)
(*   - the signals view            (sbs_view/src/views/signals_view.rs)    *)
(* The specifications share the variables: SpecCodec drives the codec with *)
(* byte streams, Spec drives the serial worker and its callers (SpecLive   *)
(* is Spec with a fair worker), SpecClient drives the facade and its       *)
(* dispatcher task, SpecBackpressure the signal-frame channel under a      *)
(* burst, SpecWindow the window buffer and its thread, SpecCommands the    *)
(* serial worker over a small set of read outcomes, and SpecValue          *)
(* Type::decode_bytes and the projection of a Value to f64.  SpecAwait is  *)
(* the worker while it waits for a response, SpecPort the worker through   *)
(* Connect and Disconnect, SpecStuck the worker on a port whose reads      *)
(* fail, SpecFrames the window buffer's thread serving frames, and         *)
(* SpecView the signals view rendered frame after frame.                   *)
(***************************************************************************)
EXTENDS Integers, Sequences, FiniteSets, TLC

(***************************************************************************)
(* Bounds of the model.                                                    *)
(***************************************************************************)
\* Longest garbage prefix put in front of a frame.
MaxGarbage == 3
\* Number of requests the callers issue in one behaviour of Spec.
MaxRequests == 2
\* Most decode events one serial read delivers in Spec.
MaxEvents == 2
\* Number of decode events and read errors the serial port delivers in one
\* behaviour of Spec.
MaxDevice == 2
\* Number of client operations in one behaviour of SpecClient.
MaxOps == 2
\* Number of raw signal frames the worker offers in SpecClient.
MaxFrames == 2
\* the frames the worker offers in a burst
MaxBurst == 34

\* the commands sent to a window buffer
MaxWindowCmds == 5

\* the requests a caller issues in SpecCommands
MaxCommands == 3

\* Most requests the caller makes of a worker that waits for responses.
MaxAwaits == 2

\* Most commands put on the request channel of a worker that is connected,
\* disconnected and connected again.
MaxPortCmds == 4

\* Most failed reads of a serial port, one more than the responses the
\* response channel holds.
MaxReadErrors == 17

\* Most clicks the user makes in the signals view.
MaxClicks == 4

\* Most commands sent to the thread of a WindowBuffer that is fed frames.
MaxFrameCmds == 5

(***************************************************************************)
(* Bytes and little-endian integers.                                       *)
(***************************************************************************)
Byte == 0..255

\* One bit of a xor b, at weight w
XorAt(a, b, w) == (((a \div w) + (b \div w)) % 2) * w

\* a ^ b on 16-bit values
Xor(a, b) ==
    XorAt(a, b, 1) + XorAt(a, b, 2) + XorAt(a, b, 4) + XorAt(a, b, 8)
    + XorAt(a, b, 16) + XorAt(a, b, 32) + XorAt(a, b, 64) + XorAt(a, b, 128)
    + XorAt(a, b, 256) + XorAt(a, b, 512) + XorAt(a, b, 1024) + XorAt(a, b, 2048)
    + XorAt(a, b, 4096) + XorAt(a, b, 8192) + XorAt(a, b, 16384) + XorAt(a, b, 32768)

\* u16::from_le_bytes on the bytes of s at 1-based i.
U16LE(s, i) == s[i] + 256 * s[i + 1]

\* u16::to_le_bytes
LE16(v) == << v % 256, (v \div 256) % 256 >>

\* One bit of the reflected CRC register, polynomial 0xA001
Crc16Shift(c) == IF c % 2 = 1 THEN Xor(c \div 2, 40961) ELSE c \div 2

\* The register after eight shifts of each byte value
Crc16Table ==
    [v \in 0..255 |->
        Crc16Shift(Crc16Shift(Crc16Shift(Crc16Shift(
        Crc16Shift(Crc16Shift(Crc16Shift(Crc16Shift(v))))))))]

\* The register c after the byte b
Crc16Byte(c, b) == Xor(Crc16Table[Xor(c % 256, b)], c \div 256)

\* The register c after the bytes s[i..j], by halves.  The register after
\* the first half is bound by a singleton set, so that it is computed once.
RECURSIVE Crc16Range(_, _, _, _)
Crc16Range(s, i, j, c) ==
    IF i > j THEN c
    ELSE IF i = j THEN Crc16Byte(c, s[i])
    ELSE CHOOSE r \in { Crc16Range(s, ((i + j) \div 2) + 1, j, h) :
                           h \in { Crc16Range(s, i, (i + j) \div 2, c) } } : TRUE

\* crc::Crc::<u16>::new(&crc::CRC_16_ARC).checksum(s): reflected polynomial
\* 0x8005 (0xA001), initial value 0, no final xor.
Crc16Arc(s) == CHOOSE r \in { Crc16Range(t, 1, Len(t), 0) : t \in { s } } : TRUE

(***************************************************************************)
(* core::str::from_utf8: whether a byte string is well-formed UTF-8.       *)
(***************************************************************************)
IsCont(b) == b >= 128 /\ b <= 191

RECURSIVE ValidUtf8From(_, _)
ValidUtf8From(s, i) ==
    IF i > Len(s) THEN TRUE
    ELSE LET b == s[i]
             n == Len(s)
         IN  IF b <= 127 THEN ValidUtf8From(s, i + 1)
             ELSE IF b >= 194 /\ b <= 223
                  THEN i + 1 <= n /\ IsCont(s[i + 1]) /\ ValidUtf8From(s, i + 2)
             ELSE IF b >= 224 /\ b <= 239
                  THEN /\ i + 2 <= n
                       /\ IsCont(s[i + 1]) /\ IsCont(s[i + 2])
                       /\ (b = 224 => s[i + 1] >= 160)
                       /\ (b = 237 => s[i + 1] <= 159)
                       /\ ValidUtf8From(s, i + 3)
             ELSE IF b >= 240 /\ b <= 244
                  THEN /\ i + 3 <= n
                       /\ IsCont(s[i + 1]) /\ IsCont(s[i + 2]) /\ IsCont(s[i + 3])
                       /\ (b = 240 => s[i + 1] >= 144)
                       /\ (b = 244 => s[i + 1] <= 143)
                       /\ ValidUtf8From(s, i + 4)
             ELSE FALSE

ValidUtf8(s) == ValidUtf8From(s, 1)

(***************************************************************************)
(* A u32 read off the wire is kept as its two 16-bit halves <<hi, lo>>:    *)
(* the magic 0xBBBBBBBB and a misparsed length do not fit the checker's    *)
(* 32-bit signed integers.  usize is 64 bits wide, so a u32 "as usize" is  *)
(* the same number.                                                        *)
(***************************************************************************)
U32At(s, i) == << U16LE(s, i + 2), U16LE(s, i) >>
U32Of(n) == << n \div 65536, n % 65536 >>
U32Bytes(v) == LE16(v[2]) \o LE16(v[1])
\* v as usize <= n, for a small n
U32Leq(v, n) == v[1] = 0 /\ v[2] <= n
\* v as usize = n, for a small n
U32Eq(v, n) == v[1] = 0 /\ v[2] = n

\* const FRAME_START (frame_decoder.rs:140) and FRAME_END (frame_decoder.rs:141)
FRAME_START == << 48059, 48059 >>
FRAME_END == 238

(***************************************************************************)
(* sbs_core/src/ty.rs: parse_type_name.  A type is [tag, w, e]; w and e    *)
(* are 0 for the named types.                                              *)
(***************************************************************************)
Ty(tag, w, e) == [tag |-> tag, w |-> w, e |-> e]
NoTy == Ty("None", 0, 0)

\* The names of the regex's first alternative, in its order.
NamedTypes ==
    << [name |-> << 117, 105, 110, 116, 56 >>, tag |-> "Uint8"],
       [name |-> << 117, 105, 110, 116, 49, 54 >>, tag |-> "Uint16"],
       [name |-> << 117, 105, 110, 116, 51, 50 >>, tag |-> "Uint32"],
       [name |-> << 105, 110, 116, 56 >>, tag |-> "Int8"],
       [name |-> << 105, 110, 116, 49, 54 >>, tag |-> "Int16"],
       [name |-> << 105, 110, 116, 51, 50 >>, tag |-> "Int32"],
       [name |-> << 102, 108, 111, 97, 116, 51, 50 >>, tag |-> "Float32"] >>

HasPrefix(s, p) == Len(s) >= Len(p) /\ SubSeq(s, 1, Len(p)) = p

IsDigit(b) == b >= 48 /\ b <= 57
\* s[i..j] is a non-empty run of [0-9]
AllDigits(s, i, j) == i <= j /\ \A k \in i..j : IsDigit(s[k])
AllSpaces(s, i, j) == \A k \in i..j : s[k] = 32

\* First index in i..j whose digit is not '0', or j when all are.
RECURSIVE FirstSig(_, _, _)
FirstSig(s, i, j) == IF i >= j \/ s[i] # 48 THEN i ELSE FirstSig(s, i + 1, j)

RECURSIVE DecValue(_, _, _, _)
DecValue(s, i, j, acc) ==
    IF i > j THEN acc ELSE DecValue(s, i + 1, j, acc * 10 + (s[i] - 48))

RECURSIVE LexLeq(_, _, _, _)
\* the ten digits s[i..i+9] read as a number are <= the ten digits of m
LexLeq(s, i, m, k) ==
    IF k > 10 THEN TRUE
    ELSE IF s[i + k - 1] < m[k] THEN TRUE
    ELSE IF s[i + k - 1] > m[k] THEN FALSE
    ELSE LexLeq(s, i, m, k + 1)

MaxU32Digits == << 52, 50, 57, 52, 57, 54, 55, 50, 57, 53 >>
MaxI32Digits == << 50, 49, 52, 55, 52, 56, 51, 54, 52, 55 >>
MinI32Digits == << 50, 49, 52, 55, 52, 56, 51, 54, 52, 56 >>

\* u32::from_str on the digits s[i..j]: [ok, val].  A value above 2^31 - 1
\* is kept as 2^31 - 1 (the program only ever compares w with 8, 16, 32, 64).
ParseU32(s, i, j) ==
    LET f == FirstSig(s, i, j)
        n == j - f + 1
    IN  IF n <= 9 THEN [ok |-> TRUE, val |-> DecValue(s, f, j, 0)]
        ELSE IF n = 10 /\ LexLeq(s, f, MaxI32Digits, 1)
             THEN [ok |-> TRUE, val |-> DecValue(s, f, j, 0)]
        ELSE IF n = 10 /\ LexLeq(s, f, MaxU32Digits, 1)
             THEN [ok |-> TRUE, val |-> 2147483647]
        ELSE [ok |-> FALSE, val |-> 0]

\* i32::from_str on an optional '-' and the digits s[i..j]
ParseI32(neg, s, i, j) ==
    LET f == FirstSig(s, i, j)
        n == j - f + 1
    IN  IF n <= 9
        THEN [ok |-> TRUE, val |-> IF neg THEN 0 - DecValue(s, f, j, 0) ELSE DecValue(s, f, j, 0)]
        ELSE IF n = 10 /\ LexLeq(s, f, MaxI32Digits, 1)
             THEN [ok |-> TRUE, val |-> IF neg THEN 0 - DecValue(s, f, j, 0) ELSE DecValue(s, f, j, 0)]
        ELSE IF n = 10 /\ neg /\ LexLeq(s, f, MinI32Digits, 1)
             THEN [ok |-> TRUE, val |-> (0 - 2147483647) - 1]
        ELSE [ok |-> FALSE, val |-> 0]

\* The regex's second alternative, matched from index i to the end of s:
\* (ufix|sfix) "(" [0-9]+ "," " "* "-"? [0-9]+ ")" $.  c is the comma and k
\* the first character after the spaces.
FixMatchAt(s, i, c, k) ==
    LET n == Len(s)
    IN  /\ i + 4 <= n
        /\ SubSeq(s, i, i + 3) \in { << 117, 102, 105, 120 >>, << 115, 102, 105, 120 >> }
        /\ s[i + 4] = 40
        /\ s[n] = 41
        /\ c > i + 5 /\ c < k /\ k < n
        /\ s[c] = 44
        /\ AllDigits(s, i + 5, c - 1)
        /\ AllSpaces(s, c + 1, k - 1)
        /\ IF s[k] = 45 THEN AllDigits(s, k + 1, n - 1) ELSE AllDigits(s, k, n - 1)

FixMatches(s) ==
    { m \in (1..Len(s)) \X (1..Len(s)) \X (1..Len(s)) : FixMatchAt(s, m[1], m[2], m[3]) }

parse_type_name(s) ==
    LET named == { x \in 1..Len(NamedTypes) : HasPrefix(s, NamedTypes[x].name) }
        fixes == FixMatches(s)
    IN  IF named # {}
        THEN Ty(NamedTypes[CHOOSE x \in named : \A y \in named : x <= y].tag, 0, 0)
        ELSE IF fixes # {}
        THEN LET m == CHOOSE x \in fixes : \A y \in fixes : x[1] <= y[1]
                 i == m[1]
                 c == m[2]
                 k == m[3]
                 neg == s[k] = 45
                 wl == ParseU32(s, i + 5, c - 1)
                 ex == ParseI32(neg, s, IF neg THEN k + 1 ELSE k, Len(s) - 1)
             IN  IF ~wl.ok \/ ~ex.ok THEN NoTy
                 ELSE Ty(IF s[i] = 115 THEN "SFix" ELSE "UFix", wl.val, ex.val)
        ELSE NoTy

(***************************************************************************)
(* sbs_uart/src/frame_decoder.rs: the streaming frame codec.               *)
(*                                                                         *)
(* A DecoderState is [tag, inner, n, pt, ec]: inner is the body substate,  *)
(* n the length carried by Data / FrameName / SignalName / SignalType, pt  *)
(* the PayloadType and ec the expected payload end char.                   *)
(***************************************************************************)
DState(tag, inner, n, pt, ec) == [tag |-> tag, inner |-> inner, n |-> n, pt |-> pt, ec |-> ec]
StartWord == DState("StartWord", "", << 0, 0 >>, "", 0)
FrameLength == DState("FrameLength", "", << 0, 0 >>, "", 0)
PayloadStartChar == DState("PayloadStartChar", "", << 0, 0 >>, "", 0)
DataFrameSt(inner, n) == DState("DataFrame", inner, n, "", 0)
ListFramesSt(inner, n) == DState("ListFrames", inner, n, "", 0)
GetFrameInfoSt(inner, n) == DState("GetFrameInfo", inner, n, "", 0)
PayloadEndChar(pt, ec) == DState("PayloadEndChar", "", << 0, 0 >>, pt, ec)
CrcSt(pt) == DState("Crc", "", << 0, 0 >>, pt, 0)
EndChar(pt) == DState("EndChar", "", << 0, 0 >>, pt, 0)

\* RawSignalFrame, PartialListFrames, PartialGetFrameInfo and their Default
DefaultDataFrame == [frame_id |-> << 0, 0 >>, timestamp |-> << 0, 0 >>, data |-> << >>]
DefaultListFrames == [num_frames |-> << 0, 0 >>, frame_id |-> << 0, 0 >>, frames |-> << >>]
DefaultGetFrameInfo ==
    [enabled |-> FALSE, num_signals |-> << 0, 0 >>, signal_name |-> << >>, signals |-> << >>]

\* Decoder::new
NewDecoder ==
    [state |-> StartWord, buffer |-> << >>, offset |-> 0,
     frame_len |-> << 0, 0 >>, frame_start_offset |-> 0,
     data_frame |-> DefaultDataFrame,
     list_frames |-> DefaultListFrames,
     get_frame_info |-> DefaultGetFrameInfo]

\* DecodeResult, one record shape for all variants.
Event(tag, kind, frames, enabled, signals, rsf, msg, arg) ==
    [tag |-> tag, kind |-> kind, frames |-> frames, enabled |-> enabled,
     signals |-> signals, rsf |-> rsf, msg |-> msg, arg |-> arg]
EvNone == Event("None", "", << >>, FALSE, << >>, DefaultDataFrame, "", 0)
EvErr(msg, arg) == Event("Err", "", << >>, FALSE, << >>, DefaultDataFrame, msg, arg)
EvListFrames(frames) ==
    Event("CmdFrame", "ListFrames", frames, FALSE, << >>, DefaultDataFrame, "", 0)
EvGetFrameInfo(enabled, signals) ==
    Event("CmdFrame", "GetFrameInfo", << >>, enabled, signals, DefaultDataFrame, "", 0)
EvEnableFrame == Event("CmdFrame", "EnableFrame", << >>, FALSE, << >>, DefaultDataFrame, "", 0)
EvDisableFrame == Event("CmdFrame", "DisableFrame", << >>, FALSE, << >>, DefaultDataFrame, "", 0)
EvSignalFrame(rsf) == Event("SignalFrame", "", << >>, FALSE, << >>, rsf, "", 0)
\* The thread's panic (an unwrap() of an Err), which is no DecodeResult.
EvPanic == Event("Panic", "", << >>, FALSE, << >>, DefaultDataFrame, "", 0)

\* DecodeResult::is_some
is_some(r) == r.tag # "None"

\* Decoder::add_data
add_data(d, data) == [d EXCEPT !.buffer = @ \o data]

unread_bytes_count(d) == Len(d.buffer) - d.offset

\* A clear that drops the unread bytes with the read ones
clear_read_all(d) == [d EXCEPT !.buffer = << >>, !.offset = 0]

\* Decoder::clear_read: buffer.drain(..offset); offset = 0
clear_read(d) ==
    [d EXCEPT !.buffer = SubSeq(@, d.offset + 1, Len(@)), !.offset = 0]

\* The consume_* and peek_* methods: [some, val, d], d being the decoder
\* with the cursor moved when some.
\* peek_u32_le asking for a fifth byte
peek_u32_le_five(d) ==
    IF unread_bytes_count(d) <= 4
    THEN [some |-> FALSE, val |-> << 0, 0 >>, d |-> d]
    ELSE [some |-> TRUE, val |-> U32At(d.buffer, d.offset + 1), d |-> d]

peek_u32_le(d) ==
    IF unread_bytes_count(d) < 4
    THEN [some |-> FALSE, val |-> << 0, 0 >>, d |-> d]
    ELSE [some |-> TRUE, val |-> U32At(d.buffer, d.offset + 1), d |-> d]

consume_u8(d) ==
    IF unread_bytes_count(d) < 1
    THEN [some |-> FALSE, val |-> 0, d |-> d]
    ELSE [some |-> TRUE, val |-> d.buffer[d.offset + 1], d |-> [d EXCEPT !.offset = @ + 1]]

consume_u16_le(d) ==
    IF unread_bytes_count(d) < 2
    THEN [some |-> FALSE, val |-> 0, d |-> d]
    ELSE [some |-> TRUE, val |-> U16LE(d.buffer, d.offset + 1),
          d |-> [d EXCEPT !.offset = @ + 2]]

\* consume_u32_le skipping the bytes of a field that is not whole yet
consume_u32_le_skipping(d) ==
    IF unread_bytes_count(d) < 4
    THEN [some |-> FALSE, val |-> << 0, 0 >>, d |-> [d EXCEPT !.offset = Len(d.buffer)]]
    ELSE [some |-> TRUE, val |-> U32At(d.buffer, d.offset + 1),
          d |-> [d EXCEPT !.offset = @ + 4]]

consume_u32_le(d) ==
    IF unread_bytes_count(d) < 4
    THEN [some |-> FALSE, val |-> << 0, 0 >>, d |-> d]
    ELSE [some |-> TRUE, val |-> U32At(d.buffer, d.offset + 1),
          d |-> [d EXCEPT !.offset = @ + 4]]

\* consume_bytes(len as usize), len a u32 or a u8 widened to one
consume_bytes(d, len) ==
    IF ~U32Leq(len, unread_bytes_count(d))
    THEN [some |-> FALSE, val |-> << >>, d |-> d]
    ELSE [some |-> TRUE, val |-> SubSeq(d.buffer, d.offset + 1, d.offset + len[2]),
          d |-> [d EXCEPT !.offset = @ + len[2]]]

\* consume_string(len as usize): as consume_bytes, and from_utf8(..).unwrap()
\* panics on bytes that are not UTF-8.
consume_string(d, len) ==
    LET r == consume_bytes(d, len)
    IN  [some |-> r.some, val |-> r.val, d |-> r.d, panic |-> r.some /\ ~ValidUtf8(r.val)]

(***************************************************************************)
(* One iteration of the loop of Decoder::decode computes                   *)
(* [d, some, ns, result, clear, panic, crc_seen, crc_data]: the decoder    *)
(* after the arm's side effects, the Option<DecoderState> new_state, the   *)
(* result, the clear_read flag, whether the arm panicked, and the slice    *)
(* the Crc arm summed.                                                     *)
(***************************************************************************)
Out(d, some, ns, result, clear) ==
    [d |-> d, some |-> some, ns |-> ns, result |-> result, clear |-> clear,
     panic |-> FALSE, crc_seen |-> FALSE, crc_data |-> << >>]
Stay(d) == Out(d, FALSE, d.state, EvNone, FALSE)
Goto(d, ns) == Out(d, TRUE, ns, EvNone, FALSE)
Panicked(d) == [Out(d, FALSE, d.state, EvNone, FALSE) EXCEPT !.panic = TRUE]

\* The StartWord arm dropping two bytes on a mismatch
StartWordMismatchTwo(d) == Out(consume_u8(consume_u8(d).d).d, TRUE, StartWord, EvNone, TRUE)

\* The StartWord arm on a mismatch without its clear_read
StartWordMismatchKeeping(d) == Out(consume_u8(d).d, TRUE, StartWord, EvNone, FALSE)

\* The StartWord arm on a word that is not FRAME_START: consume_u8, clear_read.
StartWordMismatch(d) == Out(consume_u8(d).d, TRUE, StartWord, EvNone, TRUE)

StartWordStep(d) ==
    LET p == peek_u32_le(d)
    IN  IF ~p.some THEN Stay(d)
        ELSE IF p.val = FRAME_START THEN Goto(consume_u32_le(d).d, FrameLength)
        ELSE StartWordMismatch(d)

FrameLengthStep(d) ==
    LET c == consume_u32_le(d)
    IN  IF ~c.some THEN Stay(c.d)
        ELSE Goto([c.d EXCEPT !.frame_len = c.val, !.frame_start_offset = c.d.offset],
                  PayloadStartChar)

\* The PayloadStartChar arm without the Default::default() of its first
\* three cases
PayloadStartCharKeeping(d) ==
    LET c == consume_u8(d)
    IN  IF ~c.some THEN Stay(c.d)
        ELSE IF c.val = 115 THEN Goto(c.d, DataFrameSt("FrameId", << 0, 0 >>))
        ELSE IF c.val = 108 THEN Goto(c.d, ListFramesSt("NumFrames", << 0, 0 >>))
        ELSE IF c.val = 105 THEN Goto(c.d, GetFrameInfoSt("IsEnabled", << 0, 0 >>))
        ELSE IF c.val = 101 THEN Goto(c.d, PayloadEndChar("EnableFrame", 69))
        ELSE IF c.val = 100 THEN Goto(c.d, PayloadEndChar("DisableFrame", 68))
        ELSE Out(c.d, TRUE, StartWord, EvNone, TRUE)

\* The arm b'(' stands after the catch-all arm and is never taken.
PayloadStartCharStep(d) ==
    LET c == consume_u8(d)
    IN  IF ~c.some THEN Stay(c.d)
        ELSE IF c.val = 115
             THEN Goto([c.d EXCEPT !.data_frame = DefaultDataFrame], DataFrameSt("FrameId", << 0, 0 >>))
        ELSE IF c.val = 108
             THEN Goto([c.d EXCEPT !.list_frames = DefaultListFrames],
                       ListFramesSt("NumFrames", << 0, 0 >>))
        ELSE IF c.val = 105
             THEN Goto([c.d EXCEPT !.get_frame_info = DefaultGetFrameInfo],
                       GetFrameInfoSt("IsEnabled", << 0, 0 >>))
        ELSE IF c.val = 101 THEN Goto(c.d, PayloadEndChar("EnableFrame", 69))
        ELSE IF c.val = 100 THEN Goto(c.d, PayloadEndChar("DisableFrame", 68))
        ELSE Out(c.d, TRUE, StartWord, EvNone, TRUE)

decode_data_frame(d) ==
    LET inner == d.state.inner
    IN  IF inner = "FrameId"
        THEN LET c == consume_u32_le(d)
             IN  IF ~c.some THEN Stay(c.d)
                 ELSE Goto([c.d EXCEPT !.data_frame.frame_id = c.val],
                           DataFrameSt("Timestamp", << 0, 0 >>))
        ELSE IF inner = "Timestamp"
        THEN LET c == consume_u32_le(d)
             IN  IF ~c.some THEN Stay(c.d)
                 ELSE Goto([c.d EXCEPT !.data_frame.timestamp = c.val],
                           DataFrameSt("DataLen", << 0, 0 >>))
        ELSE IF inner = "DataLen"
        THEN LET c == consume_u32_le(d)
             IN  IF ~c.some THEN Stay(c.d)
                 ELSE IF c.val # << 0, 0 >> THEN Goto(c.d, DataFrameSt("Data", c.val))
                 ELSE Goto(c.d, PayloadEndChar("DataFrame", 83))
        ELSE \* Data(len)
             LET c == consume_bytes(d, d.state.n)
             IN  IF ~c.some THEN Stay(c.d)
                 ELSE Goto([c.d EXCEPT !.data_frame.data = c.val],
                           PayloadEndChar("DataFrame", 83))

decode_list_frames(d) ==
    LET inner == d.state.inner
    IN  IF inner = "NumFrames"
        THEN LET c == consume_u32_le(d)
             IN  IF ~c.some THEN Stay(c.d)
                 ELSE IF c.val # << 0, 0 >>
                      THEN Goto([c.d EXCEPT !.list_frames.num_frames = c.val],
                                ListFramesSt("FrameId", << 0, 0 >>))
                 ELSE Goto([c.d EXCEPT !.list_frames.num_frames = c.val],
                           PayloadEndChar("ListFrames", 76))
        ELSE IF inner = "FrameId"
        THEN LET c == consume_u32_le(d)
             IN  IF ~c.some THEN Stay(c.d)
                 ELSE Goto([c.d EXCEPT !.list_frames.frame_id = c.val],
                           ListFramesSt("FrameNameLen", << 0, 0 >>))
        ELSE IF inner = "FrameNameLen"
        THEN LET c == consume_u8(d)
             IN  IF ~c.some THEN Stay(c.d)
                 ELSE Goto(c.d, ListFramesSt("FrameName", << 0, c.val >>))
        ELSE \* FrameName(len)
             LET c == consume_string(d, d.state.n)
                 frames == Append(d.list_frames.frames,
                                  [id |-> d.list_frames.frame_id, name |-> c.val])
             IN  IF ~c.some THEN Stay(c.d)
                 ELSE IF c.panic THEN Panicked(d)
                 ELSE IF U32Eq(d.list_frames.num_frames, Len(frames))
                      THEN Goto([c.d EXCEPT !.list_frames.frames = frames],
                                PayloadEndChar("ListFrames", 76))
                 ELSE Goto([c.d EXCEPT !.list_frames.frames = frames],
                           ListFramesSt("FrameId", << 0, 0 >>))

\* The SignalType arm when parse_type_name returns None: and_then gives None
\* after consume_string has moved the cursor.
SignalTypeUnparsed(d, consumed) == Stay(consumed)

\* decode_get_frame_info with the Err arm of its caller folded in: an Err(msg)
\* comes back as result Err, clear_read and Some(StartWord).
decode_get_frame_info(d) ==
    LET inner == d.state.inner
    IN  IF inner = "IsEnabled"
        THEN LET c == consume_u8(d)
             IN  IF ~c.some THEN Stay(c.d)
                 ELSE IF c.val = 0
                      THEN Goto([c.d EXCEPT !.get_frame_info.enabled = FALSE],
                                GetFrameInfoSt("NumSignals", << 0, 0 >>))
                 ELSE IF c.val = 1
                      THEN Goto([c.d EXCEPT !.get_frame_info.enabled = TRUE],
                                GetFrameInfoSt("NumSignals", << 0, 0 >>))
                 ELSE Out(c.d, TRUE, StartWord, EvErr("Invalid frame enabled value", c.val), TRUE)
        ELSE IF inner = "NumSignals"
        THEN LET c == consume_u32_le(d)
             IN  IF ~c.some THEN Stay(c.d)
                 ELSE IF c.val # << 0, 0 >>
                      THEN Goto([c.d EXCEPT !.get_frame_info.num_signals = c.val],
                                GetFrameInfoSt("SignalNameLen", << 0, 0 >>))
                 ELSE Goto([c.d EXCEPT !.get_frame_info.num_signals = c.val],
                           PayloadEndChar("GetFrameInfo", 73))
        ELSE IF inner = "SignalNameLen"
        THEN LET c == consume_u8(d)
             IN  IF ~c.some THEN Stay(c.d)
                 ELSE Goto(c.d, GetFrameInfoSt("SignalName", << 0, c.val >>))
        ELSE IF inner = "SignalName"
        THEN LET c == consume_string(d, d.state.n)
             IN  IF ~c.some THEN Stay(c.d)
                 ELSE IF c.panic THEN Panicked(d)
                 ELSE Goto([c.d EXCEPT !.get_frame_info.signal_name = c.val],
                           GetFrameInfoSt("SignalTypeLen", << 0, 0 >>))
        ELSE IF inner = "SignalTypeLen"
        THEN LET c == consume_u8(d)
             IN  IF ~c.some THEN Stay(c.d)
                 ELSE Goto(c.d, GetFrameInfoSt("SignalType", << 0, c.val >>))
        ELSE \* SignalType(len)
             LET c == consume_string(d, d.state.n)
                 ty == parse_type_name(c.val)
                 signals == Append(d.get_frame_info.signals,
                                   [name |-> d.get_frame_info.signal_name, ty |-> ty])
             IN  IF ~c.some THEN Stay(c.d)
                 ELSE IF c.panic THEN Panicked(d)
                 ELSE IF ty = NoTy THEN SignalTypeUnparsed(d, c.d)
                 ELSE IF U32Eq(d.get_frame_info.num_signals, Len(signals))
                      THEN Goto([c.d EXCEPT !.get_frame_info.signals = signals],
                                PayloadEndChar("GetFrameInfo", 73))
                 ELSE Goto([c.d EXCEPT !.get_frame_info.signals = signals],
                           GetFrameInfoSt("SignalNameLen", << 0, 0 >>))

PayloadEndCharStep(d) ==
    LET c == consume_u8(d)
    IN  IF ~c.some THEN Stay(c.d)
        ELSE IF d.state.ec = c.val THEN Goto(c.d, CrcSt(d.state.pt))
        ELSE Out(c.d, TRUE, StartWord, EvErr("Invalid payload end char", c.val), TRUE)

\* &self.buffer.as_slices().0[5..self.offset - 2], the cursor being past the
\* CRC field already.
crc_data(d) == SubSeq(d.buffer, 6, d.offset - 2)

\* crc == crc_calc
CrcMatches(crc, crc_calc) == crc = crc_calc

CrcStep(d) ==
    LET c == consume_u16_le(d)
        data == crc_data(c.d)
    IN  IF ~c.some THEN Stay(c.d)
        ELSE [(IF CrcMatches(c.val, Crc16Arc(data))
               THEN Goto(c.d, EndChar(d.state.pt))
               ELSE Out(c.d, TRUE, StartWord, EvErr("Invalid frame CRC", 0), TRUE))
              EXCEPT !.crc_seen = TRUE, !.crc_data = data]

EndCharStep(d) ==
    LET c == consume_u8(d)
        pt == d.state.pt
    IN  IF ~c.some THEN Stay(c.d)
        ELSE IF c.val = FRAME_END
        THEN Out(c.d, TRUE, StartWord,
                 IF pt = "ListFrames" THEN EvListFrames(d.list_frames.frames)
                 ELSE IF pt = "GetFrameInfo"
                      THEN EvGetFrameInfo(d.get_frame_info.enabled, d.get_frame_info.signals)
                 ELSE IF pt = "EnableFrame" THEN EvEnableFrame
                 ELSE IF pt = "DisableFrame" THEN EvDisableFrame
                 ELSE IF pt = "DataFrame" THEN EvSignalFrame(d.data_frame)
                 ELSE EvNone,
                 TRUE)
        ELSE Out(c.d, TRUE, StartWord, EvErr("Invalid frame end character", c.val), TRUE)

\* The match on cur_state.
DecodeArm(d) ==
    LET tag == d.state.tag
    IN  IF tag = "StartWord" THEN StartWordStep(d)
        ELSE IF tag = "FrameLength" THEN FrameLengthStep(d)
        ELSE IF tag = "PayloadStartChar" THEN PayloadStartCharStep(d)
        ELSE IF tag = "DataFrame" THEN decode_data_frame(d)
        ELSE IF tag = "ListFrames" THEN decode_list_frames(d)
        ELSE IF tag = "GetFrameInfo" THEN decode_get_frame_info(d)
        ELSE IF tag = "PayloadEndChar" THEN PayloadEndCharStep(d)
        ELSE IF tag = "Crc" THEN CrcStep(d)
        ELSE EndCharStep(d)

\* Decoder::decode: [d, result, panic, crc_seen, crc_data, crc_frame].
\* crc_frame is the buffer from frame_start_offset (the payload start char)
\* up to the CRC field, taken when the Crc arm ran.  The dbg!("Framelen
\* exceeded") of the loop only prints.  Each iteration's values are bound by
\* singleton sets, so that they are computed once.
RECURSIVE DecodeLoop(_, _)
DecodeLoop(d, seen) ==
    CHOOSE r \in UNION { {
        LET d1 == IF o.clear THEN clear_read(o.d) ELSE o.d
            now == IF o.crc_seen
                   THEN [crc_seen |-> TRUE, crc_data |-> o.crc_data,
                         crc_frame |-> SubSeq(o.d.buffer, o.d.frame_start_offset + 1,
                                              o.d.offset - 2)]
                   ELSE s
        IN  IF o.panic
            THEN [d |-> d1, result |-> EvPanic, panic |-> TRUE] @@ now
            ELSE IF ~o.some
            THEN [d |-> d1, result |-> o.result, panic |-> FALSE] @@ now
            ELSE IF is_some(o.result)
            THEN [d |-> [d1 EXCEPT !.state = o.ns], result |-> o.result, panic |-> FALSE] @@ now
            ELSE CHOOSE q \in { DecodeLoop(d2, n2) :
                                  d2 \in { [d1 EXCEPT !.state = o.ns] }, n2 \in { now } } : TRUE
        : s \in { seen } } : o \in { DecodeArm(d0) : d0 \in { d } } } : TRUE

NoCrc == [crc_seen |-> FALSE, crc_data |-> << >>, crc_frame |-> << >>]

decode(d) == DecodeLoop(d, NoCrc)

(***************************************************************************)
(* The device side of the wire (spec 4.3.1): a frame is built from its     *)
(* payload fields, each tagged with what it is.                            *)
(***************************************************************************)
Fld(k, b) == [k |-> k, b |-> b]

RECURSIVE Flatten(_)
Flatten(fs) == IF fs = << >> THEN << >> ELSE Head(fs).b \o Flatten(Tail(fs))

RECURSIVE KindsOf(_)
\* the kind of the field each payload byte belongs to
KindsOf(fs) ==
    IF fs = << >> THEN << >>
    ELSE [i \in 1..Len(Head(fs).b) |-> Head(fs).k] \o KindsOf(Tail(fs))

MagicBytes == << 187, 187, 187, 187 >>

\* START_MAGIC LEN payload CRC16 FRAME_END, LEN and CRC over the payload
WireFrame(payload) ==
    MagicBytes \o U32Bytes(U32Of(Len(payload))) \o payload
        \o LE16(Crc16Arc(payload)) \o << FRAME_END >>

SignalFields(id, ts, data) ==
    << Fld("start", << 115 >>), Fld("value", U32Bytes(U32Of(id))),
       Fld("value", U32Bytes(U32Of(ts))), Fld("len", U32Bytes(U32Of(Len(data)))),
       Fld("value", data), Fld("end", << 83 >>) >>

ListFields1(id, name) ==
    << Fld("start", << 108 >>), Fld("len", U32Bytes(U32Of(1))),
       Fld("value", U32Bytes(U32Of(id))), Fld("len", << Len(name) >>),
       Fld("name", name), Fld("end", << 76 >>) >>

InfoFields1(enabled, name, tyname) ==
    << Fld("start", << 105 >>), Fld("value", << IF enabled THEN 1 ELSE 0 >>),
       Fld("len", U32Bytes(U32Of(1))), Fld("len", << Len(name) >>), Fld("name", name),
       Fld("len", << Len(tyname) >>), Fld("type", tyname), Fld("end", << 73 >>) >>

Int8Name == << 105, 110, 116, 56 >>

\* The frames the device sends in the model, each with the event it stands for.
BaseFrames ==
    << [fields |-> << Fld("start", << 101 >>), Fld("end", << 69 >>) >>,
        event |-> EvEnableFrame],
       [fields |-> << Fld("start", << 100 >>), Fld("end", << 68 >>) >>,
        event |-> EvDisableFrame],
       [fields |-> SignalFields(1, 1000, << 52, 18 >>),
        event |-> EvSignalFrame([frame_id |-> U32Of(1), timestamp |-> U32Of(1000),
                                 data |-> << 52, 18 >>])],
       [fields |-> << Fld("start", << 108 >>), Fld("len", U32Bytes(U32Of(0))),
                      Fld("end", << 76 >>) >>,
        event |-> EvListFrames(<< >>)],
       [fields |-> ListFields1(2, << 97 >>),
        event |-> EvListFrames(<< [id |-> U32Of(2), name |-> << 97 >>] >>)],
       [fields |-> InfoFields1(TRUE, << 120 >>, Int8Name),
        event |-> EvGetFrameInfo(TRUE, << [name |-> << 120 >>, ty |-> Ty("Int8", 0, 0)] >>)] >>

\* A signal frame of 243 data bytes: its LEN is 257.
LongFrame == WireFrame(Flatten(SignalFields(1, 0, [i \in 1..243 |-> 0])))

\* A get-frame-info response whose type string "abcd" does not parse,
\* with the bytes "int8" after it.
UnparsedTypeStream ==
    WireFrame(Flatten(<< Fld("start", << 105 >>), Fld("value", << 1 >>),
                         Fld("len", U32Bytes(U32Of(1))), Fld("len", << 1 >>),
                         Fld("name", << 120 >>), Fld("len", << 4 >>),
                         Fld("type", << 97, 98, 99, 100 >>), Fld("type", Int8Name),
                         Fld("end", << 73 >>) >>))

\* The null/keepalive frame: start char '(', no body, end char ')'.  Its
\* bytes 10, 11..12 and 13 are the end char, the CRC and the frame end.
NullFrame == WireFrame(<< 40, 41 >>)

\* The LEN values put in place of a frame's own: smaller than the payload,
\* larger than it, and larger than 255 (258 and 65536).
LenChoices == { U32Of(0), U32Of(1), U32Of(255), U32Of(258), << 1, 0 >> }

\* frame with its LEN field (bytes 5..8) replaced by len, all else kept
WithLen(frame, len) ==
    SubSeq(frame, 1, 4) \o U32Bytes(len) \o SubSeq(frame, 9, Len(frame))

\* v with bit b flipped
FlipBit(v, b) ==
    LET w == 2 ^ b
    IN  IF (v \div w) % 2 = 1 THEN v - w ELSE v + w

GarbageBytes == { 0, 187, 222 }

RECURSIVE SeqsUpTo(_, _)
SeqsUpTo(S, n) ==
    IF n = 0 THEN { << >> }
    ELSE LET shorter == SeqsUpTo(S, n - 1)
         IN  shorter \cup { Append(q, x) : q \in { r \in shorter : Len(r) = n - 1 }, x \in S }

\* No four bytes of g \o frame that begin inside g are the start magic.
NoFalseMagic(g, frame) ==
    LET s == g \o frame
    IN  \A i \in 1..Len(g) : SubSeq(s, i, i + 3) # MagicBytes

\* One frame for each Err of the codec: an enable frame with the end char
\* 'F', a signal frame with a wrong CRC field, an enable frame that ends in
\* 0xEF, and a get-frame-info frame with the enabled byte 2.
BadFrames ==
    LET frameOf(i) == WireFrame(Flatten(BaseFrames[i].fields))
    IN  { [cause |-> "Invalid payload end char", bytes |-> [frameOf(1) EXCEPT ![10] = 70]],
          [cause |-> "Invalid frame CRC",
           bytes |-> [frameOf(3) EXCEPT ![Len(frameOf(3)) - 2] = FlipBit(@, 0)]],
          [cause |-> "Invalid frame end character",
           bytes |-> [frameOf(1) EXCEPT ![Len(frameOf(1))] = 239]],
          [cause |-> "Invalid frame enabled value", bytes |-> [frameOf(6) EXCEPT ![10] = 2]] }

\* Two frames of one type, the second holding less than, or other things
\* than, the first: each with the event it stands for
CarryPairs ==
    LET sig(id, ts, data) ==
            [fields |-> SignalFields(id, ts, data),
             event |-> EvSignalFrame([frame_id |-> U32Of(id), timestamp |-> U32Of(ts),
                                      data |-> data])]
        list1(id, name) ==
            [fields |-> ListFields1(id, name),
             event |-> EvListFrames(<< [id |-> U32Of(id), name |-> name] >>)]
        info1(en, name) ==
            [fields |-> InfoFields1(en, name, Int8Name),
             event |-> EvGetFrameInfo(en, << [name |-> name, ty |-> Ty("Int8", 0, 0)] >>)]
        info0 ==
            [fields |-> << Fld("start", << 105 >>), Fld("value", << 0 >>),
                           Fld("len", U32Bytes(U32Of(0))), Fld("end", << 73 >>) >>,
             event |-> EvGetFrameInfo(FALSE, << >>)]
    IN  { << sig(1, 1000, << 52, 18 >>), sig(2, 7, << >>) >>,
          << list1(2, << 97 >>), BaseFrames[4] >>,
          << list1(2, << 97 >>), list1(3, << 98 >>) >>,
          << info1(TRUE, << 120 >>), info0 >>,
          << info1(TRUE, << 120 >>), info1(FALSE, << 121 >>) >> }

Meta(kind, expect, clean, fkind, glen) ==
    [kind |-> kind, expect |-> expect, clean |-> clean, fkind |-> fkind, glen |-> glen]

\* The byte streams fed to the codec, each with what the model knows of it:
\* the events of its frames, whether its garbage holds no false magic, and
\* the kind of the payload field a flipped bit lies in.
Streams ==
    LET frameOf(i) == WireFrame(Flatten(BaseFrames[i].fields))
        N == Len(BaseFrames)
    IN  { [bytes |-> g \o frameOf(i),
           meta |-> Meta("garbage", << BaseFrames[i].event >>,
                         NoFalseMagic(g, frameOf(i)), "", Len(g))] :
            g \in SeqsUpTo(GarbageBytes, MaxGarbage), i \in 1..N }
        \cup
        { [bytes |-> frameOf(i) \o frameOf(j),
           meta |-> Meta("frames", << BaseFrames[i].event, BaseFrames[j].event >>, TRUE, "", 0)] :
            i \in 1..N, j \in { 1, 3 } }
        \cup
        UNION { { [bytes |-> [frameOf(i) EXCEPT ![8 + p] = FlipBit(@, b)],
                   meta |-> Meta("flip", << >>, TRUE, KindsOf(BaseFrames[i].fields)[p], 0)] :
                    p \in 1..Len(Flatten(BaseFrames[i].fields)), b \in 0..7 } :
                i \in 1..N }
        \cup
        { [bytes |-> LongFrame,
           meta |-> Meta("long",
                         << EvSignalFrame([frame_id |-> U32Of(1), timestamp |-> U32Of(0),
                                           data |-> [i \in 1..243 |-> 0]]) >>,
                         TRUE, "", 0)],
          [bytes |-> UnparsedTypeStream, meta |-> Meta("unparsed", << >>, TRUE, "", 0)] }
        \cup
        { [bytes |-> NullFrame, meta |-> Meta("null", << >>, TRUE, "", 0)] }
        \cup
        { [bytes |-> [NullFrame EXCEPT ![p] = FlipBit(@, 0)],
           meta |-> Meta("nullbad", << >>, TRUE, "", 0)] : p \in { 10, 11, 13 } }
        \cup
        { [bytes |-> bad.bytes \o frameOf(j),
           meta |-> Meta("errthen", << BaseFrames[j].event >>, TRUE, bad.cause, 0)] :
            bad \in BadFrames, j \in { 1, 3 } }
        \cup
        { [bytes |-> WithLen(frameOf(i), len),
           meta |-> Meta("len", << BaseFrames[i].event >>, TRUE, "", 0)] :
            i \in 1..N, len \in LenChoices }
        \cup
        \* the pairs of CarryPairs, the first frame whole or with a wrong CRC
        UNION { { [bytes |-> first \o second,
                   meta |-> Meta("carry", << p[1].event, p[2].event >>, TRUE, "", 0)],
                  [bytes |-> [first EXCEPT ![Len(first) - 2] = FlipBit(@, 0)] \o second,
                   meta |-> Meta("carry", << p[2].event >>, TRUE, "Invalid frame CRC", 0)] } :
                << p, first, second >> \in
                    { << q, WireFrame(Flatten(q[1].fields)), WireFrame(Flatten(q[2].fields)) >> :
                      q \in CarryPairs } }

\* The sizes of the chunks a stream is fed in; a chunk never goes past the
\* end of the stream.
ChunkSizes == { 1, 3, 7, 64, 512 }

(***************************************************************************)
(* State.                                                                  *)
(***************************************************************************)
VARIABLES
    \* SpecCodec: the stream fed to a Decoder, what the model knows of it,
    \* the bytes fed so far, the Decoder, the non-None results of decode in
    \* order, whether the last decode returned None, whether the thread
    \* panicked; and two history variables: the last decode call and the
    \* last run of the Crc arm.
    stream, meta, pos, dec, events, drained, panicked, last, lastCrc,
    \* Spec: the worker thread's state and quit flag, the request channel,
    \* the response channel, the signal-frame channel, the decode events
    \* still in the worker's decoder, the caller's position and request, the
    \* numbers of requests issued and of events delivered; and two history
    \* variables: the request the worker is servicing and the last return
    \* of SerialWorker::request.
    wstate, quit, txchan, rxchan, rawchan, decq, callerPc, callerReq, nreq, ndev,
    servicing, got,
    \* whether the worker holds an open serial port (self.serial is Some)
    serial,
    \* history: the last ser.write of a request, [called, kind, rid, ok, state]
    lastWrite,
    \* SpecClient: the descriptor cache, the number of registered callbacks,
    \* whether the dispatcher task panicked, the position of the client's
    \* method call and its locals, the numbers of calls made and of raw
    \* frames offered; and history variables: the callbacks invoked, the last
    \* return of a method, the commands sent to the worker and the last
    \* frame the dispatcher took.
    frame_descriptors, callbacks, dispPanicked, clientPc, op, nops, nraw,
    cblog, ret, sent, lastDisp,
    \* the Vec the last successful get_frames handed to its caller
    listed,
    \* SpecWindow: whether the build checks integer overflow, the window
    \* worker's window and buf, the command channel, the snapshot channel,
    \* whether the worker thread panicked or left its loop, whether a thread
    \* that sends commands panicked, whether the WindowBuffer was dropped, the
    \* number of commands sent; and history variables: the snapshot each
    \* request not polled yet is to give, and the last poll_snapshot.
    overflow_checks, window, buf, cmdq, snapq, wbPanicked, wbQuit, senderPanicked,
    dropped, nwcmds, expected, lastPoll,
    \* SpecValue: the type of a signal, the bytes left in the BinaryReader,
    \* the last decode_bytes and the last conversion of its value into f64
    sigTy, reader, decoded, projected,
    \* SpecView: the signals view's signals, enable_state and
    \* enabled_signals, whether the UI thread panicked, the plot that is
    \* selected, the enabled flags the client's descriptors hold, and the
    \* number of clicks made
    svSignals, svEnableState, svEnabledSignals, svPanicked, active_plot_id,
    cacheEnabled, nclicks

viewVars == << svSignals, svEnableState, svEnabledSignals, svPanicked, active_plot_id,
              cacheEnabled, nclicks >>

valueVars == << sigTy, reader, decoded, projected >>

windowVars == << overflow_checks, window, buf, cmdq, snapq, wbPanicked, wbQuit,
                senderPanicked, dropped, nwcmds, expected, lastPoll >>

codecVars == << stream, meta, pos, dec, events, drained, panicked, last, lastCrc >>

workerVars == << wstate, quit, txchan, rxchan, rawchan, decq, callerPc, callerReq,
                 nreq, ndev, servicing, got, serial, lastWrite >>

clientVars == << frame_descriptors, callbacks, dispPanicked, clientPc, op, nops, nraw,
                 cblog, ret, sent, lastDisp, listed >>

vars == << codecVars, workerVars, clientVars, windowVars, valueVars, viewVars >>

(***************************************************************************)
(* sbs_view/src/views/signals_view.rs: the state of the signals view.  The *)
(* Vec<SignalFrameDescriptor> of Signals::Loaded and of the results of the *)
(* processes is taken by the set of the ids of its frames whose enabled    *)
(* flag is set; the frames and their signals are those of ViewSignals.  An *)
(* AsyncProcess is [done, ok, frames]: whether its task has finished, and  *)
(* the Ok(frames) or Err it gives.                                         *)
(***************************************************************************)
ViewSignals == { << 1, "a" >>, << 1, "b" >>, << 2, "c" >> }
PlotIds == { 1, 2 }

NoProcess == [done |-> FALSE, ok |-> FALSE, frames |-> {}]
NoSignal == << 0, "" >>

\* enum Signals and enum EnableState
Signals(tag, frames, proc) == [tag |-> tag, frames |-> frames, proc |-> proc]
EnableState(tag, proc, signal_id) == [tag |-> tag, proc |-> proc, signal_id |-> signal_id]
Idle == EnableState("Idle", NoProcess, NoSignal)

\* SignalsViewState::new, with the AtomicU32::new(1) of MainView::new
ViewIdle ==
    /\ svSignals = Signals("Initial", {}, NoProcess)
    /\ svEnableState = Idle
    /\ svEnabledSignals = [s \in ViewSignals |-> {}]
    /\ svPanicked = FALSE
    /\ active_plot_id = 1
    /\ cacheEnabled = {}
    /\ nclicks = 0

NoCall == [called |-> FALSE, complete |-> FALSE, consumed |-> FALSE, result |-> "None"]

\* The number of bytes the arm of the decoder's state reads.
FieldWidth(d) ==
    LET tag == d.state.tag
        inner == d.state.inner
    IN  IF tag \in { "StartWord", "FrameLength" } THEN 4
        ELSE IF tag \in { "PayloadStartChar", "PayloadEndChar", "EndChar" } THEN 1
        ELSE IF tag = "Crc" THEN 2
        ELSE IF inner \in { "FrameId", "Timestamp", "DataLen", "NumFrames", "NumSignals" } THEN 4
        ELSE IF inner \in { "FrameNameLen", "IsEnabled", "SignalNameLen", "SignalTypeLen" } THEN 1
        ELSE IF d.state.n[1] = 0 THEN d.state.n[2]
        ELSE 65536

CodecIdle ==
    /\ stream = << >>
    /\ meta = Meta("none", << >>, TRUE, "", 0)
    /\ pos = 0
    /\ dec = NewDecoder
    /\ events = << >>
    /\ drained = TRUE
    /\ panicked = FALSE
    /\ last = NoCall
    /\ lastCrc = NoCrc

\* CommandReq and CommandRes: a request is [kind, rid] and a response
\* [kind, err, for], err being "" for Ok(..).  rid numbers the requests and
\* for is the request the worker was servicing when it made the response
\* (0 for none); neither is in the program.
Req(kind, rid) == [kind |-> kind, rid |-> rid]
Res(kind, err, for) == [kind |-> kind, err |-> err, for |-> for]
NoReq == Req("", 0)

NoReturn == [called |-> FALSE, rid |-> 0, kind |-> "", received |-> FALSE,
             res |-> Res("", "", 0), result |-> ""]

\* SerialWorkerThread::new, and a caller that has not called yet
NoWrite == [called |-> FALSE, kind |-> "", rid |-> 0, ok |-> FALSE, state |-> ""]

WorkerIdle ==
    /\ wstate = "Disconnected"
    /\ quit = FALSE
    /\ txchan = << >>
    /\ rxchan = << >>
    /\ rawchan = << >>
    /\ decq = << >>
    /\ callerPc = "idle"
    /\ callerReq = NoReq
    /\ nreq = 0
    /\ ndev = 0
    /\ servicing = 0
    /\ got = NoReturn
    /\ serial = FALSE
    /\ lastWrite = NoWrite

\* Option<HashMap<FrameId, FrameState>>: [some, map]
None == [some |-> FALSE, map |-> << >>]
Some(m) == [some |-> TRUE, map |-> m]

NoOp == [kind |-> "", id |-> 0, flag |-> FALSE, frames |-> << >>, idx |-> 0, result |-> << >>]
NoRet == [kind |-> "", result |-> "", frames |-> << >>]
NoListed == [some |-> FALSE, frames |-> << >>]
NoDispatch == [called |-> FALSE, known |-> FALSE, fits |-> FALSE, changed |-> FALSE,
               ncalls |-> 0]

\* SbsUart::new, and a client that has not called yet
ClientIdle ==
    /\ frame_descriptors = None
    /\ callbacks = 0
    /\ dispPanicked = FALSE
    /\ clientPc = "idle"
    /\ op = NoOp
    /\ nops = 0
    /\ nraw = 0
    /\ cblog = << >>
    /\ ret = NoRet
    /\ sent = 0
    /\ lastDisp = NoDispatch
    /\ listed = NoListed

\* The signals a plot can track: SignalId = (FrameId, String)
WbSignals == { << 1, "a" >>, << 1, "b" >> }

\* A deque of (timestamp, value) samples, oldest first, and whether the map
\* holds the key
NoDeque == [has |-> FALSE, q |-> << >>]

NoPoll == [called |-> FALSE, some |-> FALSE]

\* WindowBuffer::new: the thread starts with window = 10_000 and an empty
\* map, and no command has been sent
WindowNew ==
    /\ window = U32Of(10000)
    /\ buf = [s \in WbSignals |-> NoDeque]
    /\ cmdq = << >>
    /\ snapq = << >>
    /\ wbPanicked = FALSE
    /\ wbQuit = FALSE
    /\ senderPanicked = FALSE
    /\ dropped = FALSE
    /\ nwcmds = 0
    /\ expected = << >>
    /\ lastPoll = NoPoll

WindowIdle == overflow_checks = FALSE /\ WindowNew

NoDecode == [called |-> FALSE, some |-> FALSE, tag |-> "", raw |-> 0, read |-> 0,
             panic |-> FALSE]

NoF64 == [called |-> FALSE, kind |-> "", neg |-> FALSE, num |-> 0, den |-> 0,
          panic |-> FALSE]

\* No value is being decoded
ValueIdle ==
    /\ sigTy = NoTy
    /\ reader = << >>
    /\ decoded = NoDecode
    /\ projected = NoF64

CodecInit ==
    /\ WorkerIdle /\ ClientIdle /\ WindowIdle /\ ValueIdle /\ ViewIdle
    /\ \E s \in Streams : stream = s.bytes /\ meta = s.meta
    /\ pos = 0
    /\ dec = NewDecoder
    /\ events = << >>
    /\ drained = TRUE
    /\ panicked = FALSE
    /\ last = NoCall
    /\ lastCrc = NoCrc

\* The caller hands the next n bytes of the stream to add_data.
AddData(n) ==
    /\ drained /\ ~panicked /\ pos < Len(stream)
    /\ LET m == IF n < Len(stream) - pos THEN n ELSE Len(stream) - pos
       IN  /\ dec' = add_data(dec, SubSeq(stream, pos + 1, pos + m))
           /\ pos' = pos + m
    /\ drained' = FALSE
    /\ UNCHANGED << stream, meta, events, panicked, last, lastCrc >>
    /\ UNCHANGED workerVars
    /\ UNCHANGED clientVars
    /\ UNCHANGED windowVars
    /\ UNCHANGED valueVars
    /\ UNCHANGED viewVars

\* One call of decode; the caller calls it again until it returns None.
Decode ==
    /\ ~drained /\ ~panicked
    /\ \E r \in { decode(dec) } :
           /\ dec' = r.d
           /\ panicked' = r.panic
           /\ events' = IF ~r.panic /\ is_some(r.result) THEN Append(events, r.result)
                        ELSE events
           /\ drained' = (~r.panic /\ ~is_some(r.result))
           /\ last' = [called |-> TRUE,
                       complete |-> FieldWidth(dec) >= 1
                                    /\ unread_bytes_count(dec) >= FieldWidth(dec),
                       consumed |-> unread_bytes_count(r.d) < unread_bytes_count(dec),
                       result |-> r.result.tag]
           /\ lastCrc' = IF r.crc_seen
                         THEN [crc_seen |-> TRUE, crc_data |-> r.crc_data,
                               crc_frame |-> r.crc_frame]
                         ELSE lastCrc
    /\ UNCHANGED << stream, meta, pos >>
    /\ UNCHANGED workerVars
    /\ UNCHANGED clientVars
    /\ UNCHANGED windowVars
    /\ UNCHANGED valueVars
    /\ UNCHANGED viewVars

CodecNext ==
    \/ \E n \in ChunkSizes : AddData(n)
    \/ Decode

SpecCodec == CodecInit /\ [][CodecNext]_vars

(***************************************************************************)
(* The codec's claims, checked under SpecCodec.                            *)
(***************************************************************************)
\* The stream is fed whole and decode has returned None.
FedAndDrained == pos = Len(stream) /\ drained /\ ~panicked

\* add_data once, then decode until it returns None: the non-None results.
RECURSIVE DrainAll(_, _)
DrainAll(d, evs) ==
    CHOOSE q \in { IF r.panic THEN [events |-> evs, panic |-> TRUE]
                   ELSE IF ~is_some(r.result) THEN [events |-> evs, panic |-> FALSE]
                   ELSE DrainAll(r.d, Append(evs, r.result)) :
                   r \in { decode(d) } } : TRUE

WholeFeed(s) == DrainAll(add_data(NewDecoder, s), << >>)

\* C2: a stream fed in chunks of any sizes, with decode called after each
\* chunk until it returns None, gives the events that the same stream gives
\* when it is fed at once.
C2_ChunkSizeIndependence ==
    FedAndDrained =>
        \A w \in { WholeFeed(stream) } : ~w.panic /\ events = w.events

C5_AnyFlipRejected ==
    (meta.kind = "flip" /\ (panicked \/ FedAndDrained)) =>
        ~panicked /\ Len(events) = 1 /\ events[1].tag = "Err"

\* C6: the checksum the Crc arm compares with the CRC field is the checksum
\* of the bytes of the frame from its payload start char to its payload end
\* char, and of no other byte.
C6_CrcOverPayloadOnly ==
    lastCrc.crc_seen => Crc16Arc(lastCrc.crc_data) = Crc16Arc(lastCrc.crc_frame)

(***************************************************************************)
(* sbs_uart/src/serial_worker.rs: the worker thread and SerialWorker, the  *)
(* handle its caller holds.  The decoder is taken by its events here: a    *)
(* serial read hands the decoder the bytes of some events, and each decode *)
(* call returns the next one.                                              *)
(***************************************************************************)
\* mpsc::channel(16) of the requests and of the responses
ChanCap == 16
\* mpsc::channel(32) of the raw signal frames
RawChanCap == 32

\* The requests of SerialWorker's methods that wait for a response.
RequestKinds == { "Connect", "ListFrames", "GetFrameInfo", "EnableFrame", "DisableFrame" }
\* The worker states that wait for a response frame, named as their command.
AwaitKinds == { "ListFrames", "GetFrameInfo", "EnableFrame", "DisableFrame" }

\* A DecodeResult other than None: [tag, kind, rsf]
DevEv(tag, kind) == [tag |-> tag, kind |-> kind,
                     rsf |-> [frame_id |-> 1, timestamp |-> 1, data |-> << >>]]
DevEvents ==
    { DevEv("CmdFrame", k) : k \in AwaitKinds } \cup { DevEv("Err", ""), DevEv("SignalFrame", "") }

\* What ser.read returns: Err(TimedOut), another Err, or Ok with the bytes of
\* some events.
ReadOutcomes ==
    { [k |-> "TimedOut", evs |-> << >>], [k |-> "Error", evs |-> << >>] }
    \cup { [k |-> "Ok", evs |-> q] : q \in SeqsUpTo(DevEvents, MaxEvents) \ { << >> } }

\* What a read outcome takes of the MaxDevice events and errors
Cost(r) == IF r.k = "Error" THEN 1 ELSE Len(r.evs)

\* SerialWorkerThread::send_response: blocking_send
\* a send that loses the message
send_response_lost(ch, msg) == ch

send_response(ch, msg) == Append(ch, msg)

\* A send_signal_frame that drops every frame
send_signal_frame_dropping(ch, rsf) == ch

\* A send_signal_frame that makes room by dropping the oldest frame queued
send_signal_frame_evicting(ch, rsf) ==
    IF Len(ch) < RawChanCap THEN Append(ch, rsf) ELSE Append(Tail(ch), rsf)

\* SerialWorkerThread::send_signal_frame: try_send, which fails on a full channel
send_signal_frame(ch, rsf) == IF Len(ch) < RawChanCap THEN Append(ch, rsf) ELSE ch

\* The closures the handle_*_state functions pass to read_response
map_frame(state, kind, rid) ==
    IF kind = state THEN Res(state, "", rid) ELSE Res("ListFrames", "WrongFrame", rid)

\* The decode loop of handle_connected_state: [rx, raw] after all of q
RECURSIVE ConnectedLoop(_, _, _)
ConnectedLoop(q, rx, raw) ==
    IF q = << >> THEN [rx |-> rx, raw |-> raw]
    ELSE IF Head(q).tag = "SignalFrame"
         THEN ConnectedLoop(Tail(q), rx, send_signal_frame(raw, Head(q).rsf))
    ELSE IF Head(q).tag = "Err"
         THEN ConnectedLoop(Tail(q), send_response(rx, Res("GetFrameInfo", "DecodeError", 0)), raw)
    ELSE ConnectedLoop(Tail(q), send_response(rx, Res("GetFrameInfo", "WrongFrame", 0)), raw)

\* The decode loop of read_response: [q, rx, raw, done], done when it returned
\* Some(Connected); the events after the first CmdFrame or Err stay in the
\* decoder.
RECURSIVE ResponseLoop(_, _, _, _, _)
ResponseLoop(q, rx, raw, state, rid) ==
    IF q = << >> THEN [q |-> q, rx |-> rx, raw |-> raw, done |-> FALSE]
    ELSE IF Head(q).tag = "SignalFrame"
         THEN ResponseLoop(Tail(q), rx, send_signal_frame(raw, Head(q).rsf), state, rid)
    ELSE IF Head(q).tag = "Err"
         THEN [q |-> Tail(q), rx |-> send_response(rx, Res("Error", "DecodeError", rid)),
               raw |-> raw, done |-> TRUE]
    ELSE [q |-> Tail(q), rx |-> send_response(rx, map_frame(state, Head(q).kind, rid)),
          raw |-> raw, done |-> TRUE]

\* A Connect that keeps the decoder of the connection before
kept_decoder(decoder) == decoder

\* self.decoder = Decoder::new(): the worker's decoder after a Connect, the
\* decoder being the events still to be decoded from its buffer
fresh_decoder(decoder) == << >>

\* SerialWorkerThread::handle_disconnected_state.  blocking_recv waits for a
\* command; opened is what port_builder.open() and port.clear() give.
WorkerDisconnected ==
    /\ wstate = "Disconnected" /\ ~quit
    /\ txchan # << >>
    /\ Len(rxchan) < ChanCap
    /\ LET cmd == Head(txchan)
       IN  /\ txchan' = Tail(txchan)
           /\ IF cmd.kind = "Connect"
              THEN \E opened \in BOOLEAN :
                       IF opened
                       THEN /\ serial' = TRUE
                            /\ decq' = fresh_decoder(decq)
                            /\ rxchan' = send_response(rxchan, Res("Connect", "", cmd.rid))
                            /\ wstate' = "Connected"
                            /\ UNCHANGED quit
                       ELSE /\ rxchan' = send_response(rxchan,
                                                       Res("Connect", "SerialError", cmd.rid))
                            /\ UNCHANGED << decq, wstate, quit, serial >>
              ELSE IF cmd.kind = "Stop"
              THEN quit' = TRUE /\ UNCHANGED << decq, rxchan, wstate, serial >>
              ELSE /\ rxchan' = send_response(rxchan, Res("Error", "InvalidCommand", cmd.rid))
                   /\ UNCHANGED << decq, wstate, quit, serial >>
    /\ servicing' = 0
    /\ UNCHANGED << rawchan, callerPc, callerReq, nreq, ndev, got, lastWrite >>
    /\ UNCHANGED codecVars
    /\ UNCHANGED windowVars
    /\ UNCHANGED valueVars
    /\ UNCHANGED clientVars
    /\ UNCHANGED viewVars

\* A Disconnect that keeps the port
keep_port(port) == port

\* self.serial = None
drop_port(port) == FALSE

\* Whether ser.write took the bytes of the request of cmd, so that the match
\* on try_recv gives Some(state of cmd)
write_request_unchecked(cmd, wrote) == cmd.kind \in AwaitKinds

write_request(cmd, wrote) == cmd.kind \in AwaitKinds /\ wrote

\* SerialWorkerThread::handle_connected_state.  try_recv takes a command if
\* there is one; wrote is whether ser.write succeeded.  A Disconnect drops
\* the port; it and a command whose write succeeded return before the
\* serial read.
WorkerConnectedWith(outcomes, max_device) ==
    /\ wstate = "Connected" /\ ~quit
    /\ \E wrote \in BOOLEAN, r \in outcomes :
        LET has == txchan # << >>
            cmd == IF has THEN Head(txchan) ELSE NoReq
            rx1 == IF ~has \/ cmd.kind = "Stop" THEN rxchan
                   ELSE IF cmd.kind \in AwaitKinds
                        THEN send_response(rxchan, Res(cmd.kind, "SerialError", cmd.rid))
                   ELSE send_response(rxchan, Res("Error", "InvalidCommand", cmd.rid))
            lp == ConnectedLoop(decq \o r.evs, rx1, rawchan)
        IN  /\ txchan' = IF has THEN Tail(txchan) ELSE txchan
            /\ lastWrite' = IF has /\ cmd.kind \in AwaitKinds
                            THEN [called |-> TRUE, kind |-> cmd.kind, rid |-> cmd.rid,
                                  ok |-> wrote, state |-> wstate]
                            ELSE lastWrite
            /\ IF has /\ cmd.kind = "Disconnect"
               THEN /\ r.k = "TimedOut" /\ ~wrote
                    /\ serial' = drop_port(serial)
                    /\ wstate' = "Disconnected"
                    /\ servicing' = 0
                    /\ UNCHANGED << quit, rxchan, rawchan, decq, ndev >>
               ELSE IF has /\ write_request(cmd, wrote)
               THEN /\ r.k = "TimedOut"
                    /\ wstate' = cmd.kind
                    /\ servicing' = cmd.rid
                    /\ UNCHANGED << quit, rxchan, rawchan, decq, ndev, serial >>
               ELSE /\ ndev + Cost(r) <= max_device
                    /\ quit' = (has /\ cmd.kind = "Stop")
                    /\ wstate' = "Connected"
                    /\ servicing' = 0
                    /\ IF r.k = "TimedOut"
                       THEN rxchan' = rx1 /\ UNCHANGED << rawchan, decq, ndev >>
                       ELSE IF r.k = "Error"
                       THEN /\ rxchan' = send_response(rx1, Res("GetFrameInfo", "SerialError", 0))
                            /\ ndev' = ndev + 1
                            /\ UNCHANGED << rawchan, decq >>
                       ELSE /\ rxchan' = lp.rx
                            /\ rawchan' = lp.raw
                            /\ decq' = << >>
                            /\ ndev' = ndev + Len(r.evs)
                    /\ Len(rxchan') <= ChanCap
                    /\ UNCHANGED serial
    /\ UNCHANGED << callerPc, callerReq, nreq, got >>
    /\ UNCHANGED codecVars
    /\ UNCHANGED windowVars
    /\ UNCHANGED valueVars
    /\ UNCHANGED clientVars
    /\ UNCHANGED viewVars

WorkerConnectedOn(outcomes) == WorkerConnectedWith(outcomes, MaxDevice)

WorkerConnected == WorkerConnectedOn(ReadOutcomes)

\* handle_list_frames_state, handle_get_frame_info_state,
\* handle_enable_frame_state and handle_disable_frame_state: read_response
\* with the closure of the state.
WorkerAwaitOn(outcomes) ==
    /\ wstate \in AwaitKinds /\ ~quit
    /\ Len(rxchan) < ChanCap
    /\ \E r \in outcomes :
        LET lp == ResponseLoop(decq \o r.evs, rxchan, rawchan, wstate, servicing)
        IN  /\ ndev + Cost(r) <= MaxDevice
            /\ IF r.k = "TimedOut"
               THEN UNCHANGED << wstate, rxchan, rawchan, decq, ndev, servicing >>
               ELSE IF r.k = "Error"
               THEN /\ rxchan' = send_response(rxchan, Res("Error", "SerialError", servicing))
                    /\ wstate' = "Connected"
                    /\ servicing' = 0
                    /\ ndev' = ndev + 1
                    /\ UNCHANGED << rawchan, decq >>
               ELSE /\ rxchan' = lp.rx
                    /\ rawchan' = lp.raw
                    /\ decq' = lp.q
                    /\ ndev' = ndev + Len(r.evs)
                    /\ wstate' = IF lp.done THEN "Connected" ELSE wstate
                    /\ servicing' = IF lp.done THEN 0 ELSE servicing
    /\ UNCHANGED << quit, txchan, callerPc, callerReq, nreq, got >>
    /\ UNCHANGED << serial, lastWrite >>
    /\ UNCHANGED codecVars
    /\ UNCHANGED windowVars
    /\ UNCHANGED valueVars
    /\ UNCHANGED clientVars
    /\ UNCHANGED viewVars

WorkerAwait == WorkerAwaitOn(ReadOutcomes)

\* What connect, list_frames, get_frame_info, enable_frame and disable_frame
\* make of the response that request returned.
MethodResult(kind, res) ==
    IF res.kind = kind THEN (IF res.err = "" THEN "Ok" ELSE res.err)
    ELSE IF res.kind = "Error" THEN res.err
    ELSE "Internal"

\* SerialWorker::request up to its await of the response: txchan_tx.send(req)
CallerSendUpTo(kind, limit) ==
    /\ callerPc = "idle" /\ nreq < limit
    /\ Len(txchan) < ChanCap
    /\ txchan' = Append(txchan, Req(kind, nreq + 1))
    /\ callerReq' = Req(kind, nreq + 1)
    /\ callerPc' = "waiting"
    /\ nreq' = nreq + 1
    /\ UNCHANGED << wstate, quit, rxchan, rawchan, decq, ndev, servicing, got >>
    /\ UNCHANGED << serial, lastWrite >>
    /\ UNCHANGED codecVars
    /\ UNCHANGED windowVars
    /\ UNCHANGED valueVars
    /\ UNCHANGED clientVars
    /\ UNCHANGED viewVars

CallerSend(kind) == CallerSendUpTo(kind, MaxRequests)

\* SerialWorker::request: rxchan_rx.recv() completes within the timeout
CallerRecv ==
    /\ callerPc = "waiting" /\ rxchan # << >>
    /\ got' = [called |-> TRUE, rid |-> callerReq.rid, kind |-> callerReq.kind,
               received |-> TRUE, res |-> Head(rxchan),
               result |-> MethodResult(callerReq.kind, Head(rxchan))]
    /\ rxchan' = Tail(rxchan)
    /\ callerPc' = "idle"
    /\ UNCHANGED << wstate, quit, txchan, rawchan, decq, callerReq, nreq, ndev, servicing >>
    /\ UNCHANGED << serial, lastWrite >>
    /\ UNCHANGED codecVars
    /\ UNCHANGED windowVars
    /\ UNCHANGED valueVars
    /\ UNCHANGED clientVars
    /\ UNCHANGED viewVars

\* SerialWorker::request: the timeout elapses with no response in the channel
CallerTimeout ==
    /\ callerPc = "waiting" /\ rxchan = << >>
    /\ got' = [called |-> TRUE, rid |-> callerReq.rid, kind |-> callerReq.kind,
               received |-> FALSE, res |-> Res("", "", 0), result |-> "Timeout"]
    /\ callerPc' = "idle"
    /\ UNCHANGED << wstate, quit, txchan, rxchan, rawchan, decq, callerReq, nreq, ndev,
                    servicing >>
    /\ UNCHANGED << serial, lastWrite >>
    /\ UNCHANGED codecVars
    /\ UNCHANGED windowVars
    /\ UNCHANGED valueVars
    /\ UNCHANGED clientVars
    /\ UNCHANGED viewVars

\* SerialWorker::quit: send Stop; the join is the worker's quit flag
CallerQuit ==
    /\ callerPc = "idle"
    /\ Len(txchan) < ChanCap
    /\ txchan' = Append(txchan, Req("Stop", 0))
    /\ callerPc' = "quit"
    /\ UNCHANGED << wstate, quit, rxchan, rawchan, decq, callerReq, nreq, ndev, servicing, got >>
    /\ UNCHANGED << serial, lastWrite >>
    /\ UNCHANGED codecVars
    /\ UNCHANGED windowVars
    /\ UNCHANGED valueVars
    /\ UNCHANGED clientVars
    /\ UNCHANGED viewVars

(***************************************************************************)
(* sbs_core/src/decode.rs and value.rs: the typed signal decoder.  A Value *)
(* is [tag, w, e, raw].                                                    *)
(***************************************************************************)
Value(tag, w, e, raw) == [tag |-> tag, w |-> w, e |-> e, raw |-> raw]

\* Type::default_value
default_value(ty) == Value(ty.tag, ty.w, ty.e, 0)

\* from_le_bytes of an unsigned integer
RECURSIVE LEValue(_)
LEValue(bs) == IF bs = << >> THEN 0 ELSE Head(bs) + 256 * LEValue(Tail(bs))

\* from_le_bytes of a signed integer of Len(bs) bytes
LESigned(bs) ==
    IF bs[Len(bs)] >= 128 THEN LEValue(bs) - 256 ^ Len(bs) ELSE LEValue(bs)

\* The number of bytes decode_bytes reads for a type, 0 for the types in its
\* todo!() arm.
TypeWidth(ty) ==
    IF ty.tag \in { "Uint8", "Int8" } THEN 1
    ELSE IF ty.tag \in { "Uint16", "Int16" } THEN 2
    ELSE IF ty.tag \in { "Uint32", "Int32" } THEN 4
    ELSE IF ty.tag = "UFix" /\ ty.w <= 8 THEN 1
    ELSE IF ty.tag = "UFix" /\ ty.w <= 16 THEN 2
    ELSE IF ty.tag = "UFix" /\ ty.w <= 32 THEN 4
    ELSE IF ty.tag = "UFix" /\ ty.w <= 64 THEN 8
    ELSE 0

\* Type::decode_bytes on a BinaryReader over bytes: [some, val, rest, panic]
decode_bytes(ty, bytes) ==
    LET n == TypeWidth(ty)
        data == SubSeq(bytes, 1, n)
    IN  IF n = 0
        THEN [some |-> FALSE, val |-> default_value(ty), rest |-> bytes, panic |-> TRUE]
        ELSE IF Len(bytes) < n
        THEN [some |-> FALSE, val |-> default_value(ty), rest |-> bytes, panic |-> FALSE]
        ELSE [some |-> TRUE,
              val |-> Value(ty.tag, ty.w, ty.e,
                            IF ty.tag \in { "Int8", "Int16", "Int32" } THEN LESigned(data)
                            ELSE LEValue(data)),
              rest |-> SubSeq(bytes, n + 1, Len(bytes)), panic |-> FALSE]

\* SignalFrameValue::new
SignalFrameValue_new(descriptor) ==
    [descriptor |-> descriptor, timestamp |-> 0,
     data |-> [i \in 1..Len(descriptor.signals) |-> default_value(descriptor.signals[i].ty)]]

\* The loop of update_from_bytes from signal i on: [v, ok, panic]
RECURSIVE UpdateFrom(_, _, _)
UpdateFrom(v, i, bytes) ==
    IF i > Len(v.descriptor.signals) THEN [v |-> v, ok |-> TRUE, panic |-> FALSE]
    ELSE LET r == decode_bytes(v.descriptor.signals[i].ty, bytes)
         IN  IF r.panic THEN [v |-> v, ok |-> FALSE, panic |-> TRUE]
             ELSE IF ~r.some THEN [v |-> v, ok |-> FALSE, panic |-> FALSE]
             ELSE UpdateFrom([v EXCEPT !.data[i] = r.val], i + 1, r.rest)

\* SignalFrameValue::update_from_bytes
update_from_bytes(v, timestamp, bytes) ==
    UpdateFrom([v EXCEPT !.timestamp = timestamp], 1, bytes)

(***************************************************************************)
(* sbs_uart/src/sbs_uart.rs: the client facade and its dispatcher task.    *)
(* The worker is taken by what its methods return here.                    *)
(***************************************************************************)
FrameIds == { 1, 2 }

\* HashMap::insert
Insert(m, k, v) == [x \in DOMAIN m \cup { k } |-> IF x = k THEN v ELSE m[x]]

\* What list_frames can return with Ok: Vec<FrameInfo>
FrameInfo(id) == [id |-> id, name |-> << 101 + id >>]
ListChoices ==
    { << >>, << FrameInfo(1) >>, << FrameInfo(2), FrameInfo(1) >> }

\* What get_frame_info(id) can return with Ok: FrameDetails.  The device
\* of the model declares a uint8 and a uint16 in frame 1 and a float32 in
\* the other frames.
SignalsOf(id) ==
    IF id = 1
    THEN << [name |-> << 120 >>, ty |-> Ty("Uint8", 0, 0)],
            [name |-> << 121 >>, ty |-> Ty("Uint16", 0, 0)] >>
    ELSE << [name |-> << 120 >>, ty |-> Ty("Float32", 0, 0)] >>
DetailChoices(id) == { [enabled |-> en, signals |-> SignalsOf(id)] : en \in BOOLEAN }

\* The raw signal frames the worker offers as its n-th, the device's
\* timestamp of the n-th frame being 10 * n + frame_id: of frame 1 with data shorter than it declares,
\* as long, or longer, of frame 2 with the four bytes of its float32, and of
\* a frame the device does not list.
RawFrames(n) ==
    { [frame_id |-> 1, timestamp |-> 10 * n + 1, data |-> data] :
        data \in { << 7 >>, << 7, 1, 0 >>, << 7, 1, 0, 9 >> } }
    \cup { [frame_id |-> 2, timestamp |-> 10 * n + 2, data |-> << 0, 0, 128, 63 >>],
           [frame_id |-> 3, timestamp |-> 10 * n + 3, data |-> << 7 >>] }

\* The FrameState ensure_frame_descriptors_loaded builds for one frame
FrameState(frame, frame_details) ==
    LET descriptor == [id |-> frame.id, name |-> frame.name,
                       enabled |-> frame_details.enabled,
                       signals |-> frame_details.signals]
    IN  [descriptor |-> descriptor, latest_value |-> SignalFrameValue_new(descriptor)]

\* The descriptors of a map by descending id
RECURSIVE SortedDescending(_, _)
SortedDescending(m, ids) ==
    IF ids = {} THEN << >>
    ELSE LET hi == CHOOSE x \in ids : \A y \in ids : x >= y
         IN  << m[hi].descriptor >> \o SortedDescending(m, ids \ { hi })

\* frames.sort_by(id) of the descriptors of a map
RECURSIVE SortedDescriptors(_, _)
SortedDescriptors(m, ids) ==
    IF ids = {} THEN << >>
    ELSE LET lo == CHOOSE x \in ids : \A y \in ids : x <= y
         IN  << m[lo].descriptor >> \o SortedDescriptors(m, ids \ { lo })

\* The sum of the widths of the signals a descriptor declares
RECURSIVE DeclaredWidth(_)
DeclaredWidth(signals) ==
    IF signals = << >> THEN 0
    ELSE TypeWidth(Head(signals).ty) + DeclaredWidth(Tail(signals))

\* An early return that writes the map under construction to the cache
ReturnEarlyInstalling(descriptors, result) == Some(result)

\* The ? of ensure_frame_descriptors_loaded: it returns before the cache is
\* written, and the local map is dropped.
ReturnEarly(descriptors, result) == descriptors

\* enable_frame and disable_frame after the worker's Ok, setting every flag
SetEnabledAll(descriptors, frame_id, enabled) ==
    IF descriptors.some
    THEN Some([k \in DOMAIN descriptors.map |->
                  [descriptors.map[k] EXCEPT !.descriptor.enabled = enabled]])
    ELSE descriptors

\* enable_frame and disable_frame after the worker's Ok: the two if-lets
SetEnabled(descriptors, frame_id, enabled) ==
    IF descriptors.some /\ frame_id \in DOMAIN descriptors.map
    THEN Some([descriptors.map EXCEPT ![frame_id].descriptor.enabled = enabled])
    ELSE descriptors

Returned(kind, result, frames) == [kind |-> kind, result |-> result, frames |-> frames]

\* get_frames up to the await of list_frames
GetFramesCall ==
    /\ clientPc = "idle" /\ nops < MaxOps
    /\ clientPc' = "gf_list"
    /\ op' = [NoOp EXCEPT !.kind = "get_frames"]
    /\ nops' = nops + 1
    /\ sent' = sent + 1
    /\ UNCHANGED << frame_descriptors, callbacks, dispPanicked, nraw, cblog, ret, lastDisp, listed >>
    /\ UNCHANGED codecVars
    /\ UNCHANGED windowVars
    /\ UNCHANGED valueVars
    /\ UNCHANGED workerVars
    /\ UNCHANGED viewVars

\* ensure_frame_descriptors_loaded from the return of list_frames up to the
\* await of the first get_frame_info
ListFramesReturn ==
    /\ clientPc = "gf_list"
    /\ \E ok \in BOOLEAN, frames \in ListChoices :
        IF ~ok
        THEN /\ frame_descriptors' = ReturnEarly(frame_descriptors, op.result)
             /\ ret' = Returned("get_frames", "Err", << >>)
             /\ clientPc' = "idle"
             /\ UNCHANGED << op, sent >>
        ELSE /\ op' = [op EXCEPT !.frames = frames, !.idx = 1]
             /\ clientPc' = IF frames = << >> THEN "gf_install" ELSE "gf_info"
             /\ sent' = IF frames = << >> THEN sent ELSE sent + 1
             /\ UNCHANGED << frame_descriptors, ret >>
    /\ UNCHANGED << callbacks, dispPanicked, nops, nraw, cblog, lastDisp, listed >>
    /\ UNCHANGED codecVars
    /\ UNCHANGED windowVars
    /\ UNCHANGED valueVars
    /\ UNCHANGED workerVars
    /\ UNCHANGED viewVars

\* ensure_frame_descriptors_loaded from the return of a get_frame_info up to
\* the await of the next one
GetFrameInfoReturn ==
    /\ clientPc = "gf_info"
    /\ \E ok \in BOOLEAN, frame_details \in DetailChoices(op.frames[op.idx].id) :
        LET frame == op.frames[op.idx]
        IN  IF ~ok
            THEN /\ frame_descriptors' = ReturnEarly(frame_descriptors, op.result)
                 /\ ret' = Returned("get_frames", "Err", << >>)
                 /\ clientPc' = "idle"
                 /\ UNCHANGED << op, sent >>
            ELSE /\ op' = [op EXCEPT !.result = Insert(@, frame.id,
                                                       FrameState(frame, frame_details)),
                                     !.idx = @ + 1]
                 /\ clientPc' = IF op.idx = Len(op.frames) THEN "gf_install" ELSE "gf_info"
                 /\ sent' = IF op.idx = Len(op.frames) THEN sent ELSE sent + 1
                 /\ UNCHANGED << frame_descriptors, ret >>
    /\ UNCHANGED << callbacks, dispPanicked, nops, nraw, cblog, lastDisp, listed >>
    /\ UNCHANGED codecVars
    /\ UNCHANGED windowVars
    /\ UNCHANGED valueVars
    /\ UNCHANGED workerVars
    /\ UNCHANGED viewVars

\* ensure_frame_descriptors_loaded writing the cache, and get_frames reading
\* it back, sorting and returning
GetFramesInstall ==
    /\ clientPc = "gf_install"
    /\ frame_descriptors' = Some(op.result)
    /\ ret' = Returned("get_frames", "Ok", SortedDescriptors(op.result, DOMAIN op.result))
    /\ listed' = [some |-> TRUE,
                  frames |-> SortedDescriptors(op.result, DOMAIN op.result)]
    /\ clientPc' = "idle"
    /\ UNCHANGED << callbacks, dispPanicked, op, nops, nraw, cblog, sent, lastDisp >>
    /\ UNCHANGED codecVars
    /\ UNCHANGED windowVars
    /\ UNCHANGED valueVars
    /\ UNCHANGED workerVars
    /\ UNCHANGED viewVars

\* enable_frame (enabled) and disable_frame (~enabled) up to the await of
\* the worker
EnableCall(frame_id, enabled) ==
    /\ clientPc = "idle" /\ nops < MaxOps
    /\ clientPc' = "en_wait"
    /\ op' = [NoOp EXCEPT !.kind = IF enabled THEN "enable_frame" ELSE "disable_frame",
                          !.id = frame_id, !.flag = enabled]
    /\ nops' = nops + 1
    /\ sent' = sent + 1
    /\ UNCHANGED << frame_descriptors, callbacks, dispPanicked, nraw, cblog, ret, lastDisp, listed >>
    /\ UNCHANGED codecVars
    /\ UNCHANGED windowVars
    /\ UNCHANGED valueVars
    /\ UNCHANGED workerVars
    /\ UNCHANGED viewVars

\* enable_frame and disable_frame at the return of the worker: the ? returns
\* an Err
EnableReturn ==
    /\ clientPc = "en_wait"
    /\ \E ok \in BOOLEAN :
        IF ~ok
        THEN /\ ret' = Returned(op.kind, "Err", << >>)
             /\ clientPc' = "idle"
        ELSE /\ clientPc' = "en_apply"
             /\ UNCHANGED ret
    /\ UNCHANGED << frame_descriptors, callbacks, dispPanicked, op, nops, nraw, cblog, sent,
                    lastDisp, listed >>
    /\ UNCHANGED codecVars
    /\ UNCHANGED windowVars
    /\ UNCHANGED valueVars
    /\ UNCHANGED workerVars
    /\ UNCHANGED viewVars

\* enable_frame and disable_frame with the write lock
EnableApply ==
    /\ clientPc = "en_apply"
    /\ frame_descriptors' = SetEnabled(frame_descriptors, op.id, op.flag)
    /\ ret' = Returned(op.kind, "Ok", << >>)
    /\ clientPc' = "idle"
    /\ UNCHANGED << callbacks, dispPanicked, op, nops, nraw, cblog, sent, lastDisp, listed >>
    /\ UNCHANGED codecVars
    /\ UNCHANGED windowVars
    /\ UNCHANGED valueVars
    /\ UNCHANGED workerVars
    /\ UNCHANGED viewVars

\* add_callback
AddCallback ==
    /\ clientPc = "idle" /\ nops < MaxOps
    /\ callbacks' = callbacks + 1
    /\ nops' = nops + 1
    /\ op' = [NoOp EXCEPT !.kind = "add_callback"]
    /\ ret' = Returned("add_callback", "Ok", << >>)
    /\ UNCHANGED << frame_descriptors, dispPanicked, clientPc, nraw, cblog, sent, lastDisp, listed >>
    /\ UNCHANGED codecVars
    /\ UNCHANGED windowVars
    /\ UNCHANGED valueVars
    /\ UNCHANGED workerVars
    /\ UNCHANGED viewVars

\* The worker's send_signal_frame, seen from the client: the worker's
\* limit-th frame is its last.
Offer(rsf, limit) ==
    /\ nraw < limit
    /\ rawchan' = send_signal_frame(rawchan, rsf)
    /\ nraw' = nraw + 1
    /\ UNCHANGED << wstate, quit, txchan, rxchan, decq, callerPc, callerReq, nreq, ndev,
                    servicing, got >>
    /\ UNCHANGED << frame_descriptors, callbacks, dispPanicked, clientPc, op, nops, cblog,
                    ret, sent, lastDisp, listed >>
    /\ UNCHANGED << serial, lastWrite >>
    /\ UNCHANGED codecVars
    /\ UNCHANGED windowVars
    /\ UNCHANGED valueVars
    /\ UNCHANGED viewVars

WorkerOffers(rsf) == Offer(rsf, MaxFrames)

\* Receiver::recv taking the newest message of the channel
recv_newest(ch) == [frame |-> ch[Len(ch)], rest |-> SubSeq(ch, 1, Len(ch) - 1)]

\* Receiver::recv on a channel that holds a message: the oldest one
recv(ch) == [frame |-> Head(ch), rest |-> Tail(ch)]

\* One iteration of the dispatcher task: raw_frame_rx.recv(), the write lock,
\* update_from_bytes and the callbacks.  The result of update_from_bytes is
\* not looked at.
Dispatch ==
    /\ rawchan # << >> /\ ~dispPanicked
    /\ rawchan' = recv(rawchan).rest
    /\ LET frame == recv(rawchan).frame
           known == frame_descriptors.some /\ frame.frame_id \in DOMAIN frame_descriptors.map
       IN  IF ~known
           THEN /\ lastDisp' = [NoDispatch EXCEPT !.called = TRUE]
                /\ UNCHANGED << frame_descriptors, dispPanicked, cblog >>
           ELSE \E u \in { update_from_bytes(frame_descriptors.map[frame.frame_id].latest_value,
                                             frame.timestamp, frame.data) } :
                /\ frame_descriptors' =
                       Some([frame_descriptors.map EXCEPT ![frame.frame_id].latest_value = u.v])
                /\ dispPanicked' = u.panic
                /\ cblog' = IF u.panic THEN cblog
                            ELSE cblog \o [c \in 1..callbacks |->
                                              [cb |-> c, frame_id |-> frame.frame_id,
                                               timestamp |-> u.v.timestamp, data |-> u.v.data]]
                /\ lastDisp' =
                       [called |-> TRUE, known |-> TRUE,
                        fits |-> Len(frame.data) = DeclaredWidth(u.v.descriptor.signals),
                        changed |-> u.v # frame_descriptors.map[frame.frame_id].latest_value,
                        ncalls |-> IF u.panic THEN 0 ELSE callbacks]
    /\ UNCHANGED << wstate, quit, txchan, rxchan, decq, callerPc, callerReq, nreq, ndev,
                    servicing, got >>
    /\ UNCHANGED << callbacks, clientPc, op, nops, nraw, ret, sent, listed >>
    /\ UNCHANGED << serial, lastWrite >>
    /\ UNCHANGED codecVars
    /\ UNCHANGED windowVars
    /\ UNCHANGED valueVars
    /\ UNCHANGED viewVars

Init == CodecIdle /\ WorkerIdle /\ ClientIdle /\ WindowIdle /\ ValueIdle /\ ViewIdle

Next ==
    \/ WorkerDisconnected
    \/ WorkerConnected
    \/ WorkerAwait
    \/ \E kind \in RequestKinds : CallerSend(kind)
    \/ CallerRecv
    \/ CallerTimeout
    \/ CallerQuit
    \/ Dispatch

Spec == Init /\ [][Next]_vars

\* C1: a response that request hands to its caller was made by the worker
\* while it serviced that request.
C1_ResponseOfOwnRequest ==
    (got.called /\ got.received) => got.res.for = got.rid

ClientNext ==
    \/ GetFramesCall
    \/ ListFramesReturn
    \/ GetFrameInfoReturn
    \/ GetFramesInstall
    \/ \E frame_id \in FrameIds, enabled \in BOOLEAN : EnableCall(frame_id, enabled)
    \/ EnableReturn
    \/ EnableApply
    \/ AddCallback
    \/ \E rsf \in RawFrames(nraw + 1) : WorkerOffers(rsf)
    \/ Dispatch

SpecClient == Init /\ [][ClientNext]_vars

\* A step of a method of the client, not of the dispatcher or the worker
ClientStep == clientPc' # clientPc \/ op' # op

\* C7: a raw signal frame whose data length is not the sum of the widths its
\* descriptor declares is dropped: no callback is invoked and latest_value is
\* unchanged.
C7_WrongLengthDropped ==
    (lastDisp.called /\ lastDisp.known /\ ~lastDisp.fits) =>
        (lastDisp.ncalls = 0 /\ ~lastDisp.changed)

\* C8: once the cache is loaded, a get_frames call sends no command to the
\* worker and leaves the cache unchanged.
C8_NoDiscoveryWhenLoaded ==
    [][(ClientStep /\ op'.kind = "get_frames" /\ frame_descriptors.some) =>
           (sent' = sent /\ frame_descriptors' = frame_descriptors)]_vars

\* C9: in enable_frame and disable_frame, when the worker call succeeds the
\* cached descriptor of the frame gets the flag and nothing else in the cache
\* changes; when it fails the cache is unchanged and the error is returned.
C9_EnableDisableEffect ==
    [][(ClientStep /\ op'.kind \in { "enable_frame", "disable_frame" }) =>
           /\ clientPc = "en_apply" =>
                /\ ret'.result = "Ok"
                /\ frame_descriptors'.some = frame_descriptors.some
                /\ DOMAIN frame_descriptors'.map = DOMAIN frame_descriptors.map
                /\ \A k \in DOMAIN frame_descriptors.map :
                     frame_descriptors'.map[k] =
                         IF k = op.id
                         THEN [frame_descriptors.map[k] EXCEPT !.descriptor.enabled = op.flag]
                         ELSE frame_descriptors.map[k]
           /\ clientPc # "en_apply" =>
                /\ frame_descriptors' = frame_descriptors
                /\ (clientPc' = "idle" => ret' = Returned(op.kind, "Err", << >>))]_vars

C9_EnableWitness ==
    /\ ret.kind = "enable_frame" /\ ret.result = "Ok" /\ clientPc = "idle"
    /\ op.kind = "enable_frame"
    /\ frame_descriptors.some /\ DOMAIN frame_descriptors.map = { 1, 2 }
    /\ frame_descriptors.map[op.id].descriptor.enabled
    /\ ~frame_descriptors.map[3 - op.id].descriptor.enabled

\* C10: when list_frames or a get_frame_info of the load pass fails,
\* get_frames returns the error and the cache is what it was; the map under
\* construction is written to the cache only whole.
C10_LoadAllOrNothing ==
    [][(ClientStep /\ op'.kind = "get_frames") =>
           /\ clientPc # "gf_install" =>
                /\ frame_descriptors' = frame_descriptors
                /\ (clientPc' = "idle" => ret' = Returned("get_frames", "Err", << >>))
           /\ clientPc = "gf_install" =>
                /\ DOMAIN frame_descriptors'.map = { op.frames[i].id : i \in 1..Len(op.frames) }
                /\ ret'.result = "Ok"]_vars

C10_FailedLoadWitness ==
    /\ ret = Returned("get_frames", "Err", << >>) /\ clientPc = "idle"
    /\ op.kind = "get_frames" /\ op.idx = 2 /\ DOMAIN op.result = { 2 }
    /\ frame_descriptors.some /\ DOMAIN frame_descriptors.map = { 1, 2 }

(***************************************************************************)
(* The signal channel under a burst: the worker offers frame after frame   *)
(* of frame 1 while the dispatcher takes them at its own pace.             *)
(***************************************************************************)
BurstFrames(n) == { [frame_id |-> 1, timestamp |-> 10 * n + 1, data |-> << 7, 1, 0 >>] }

BackpressureNext ==
    \/ \E rsf \in BurstFrames(nraw + 1) : Offer(rsf, MaxBurst)
    \/ Dispatch

SpecBackpressure == Init /\ [][BackpressureNext]_vars

\* The timestamps callback c was invoked with for frame id, in the order of
\* its invocations
RECURSIVE Observed(_, _, _)
Observed(log, c, id) ==
    IF log = << >> THEN << >>
    ELSE (IF Head(log).cb = c /\ Head(log).frame_id = id
          THEN << Head(log).timestamp >> ELSE << >>) \o Observed(Tail(log), c, id)

\* C11: for each frame id, what a callback observes is a subsequence of the
\* frames of that id in the order the worker offered them: every observed
\* timestamp is that of an offered frame of the id, and the observed frames
\* come in strictly growing order of arrival (no reordering, no duplicate).
C11_CallbackOrder ==
    \A c \in 1..callbacks, id \in FrameIds :
        \A o \in { Observed(cblog, c, id) } :
            /\ \A i \in 1..Len(o) : o[i] % 10 = id /\ o[i] \div 10 \in 1..nraw
            /\ \A i, j \in 1..Len(o) : i < j => o[i] \div 10 < o[j] \div 10

C11_CallbackOrderWitness ==
    callbacks >= 1 /\ Len(Observed(cblog, 1, 1)) >= 2

\* A step of the dispatcher that took a frame from the signal channel
DispatchStep == rawchan # << >> /\ rawchan' = Tail(rawchan)

\* C12: when the dispatcher takes a frame whose id is in the loaded cache,
\* each registered callback is invoked exactly once, in registration order,
\* with the frame's id and timestamp; when the id is unknown or the cache is
\* not loaded, no callback is invoked and the cache is unchanged.
C12_EachCallbackOnce ==
    [][DispatchStep =>
          LET frame == Head(rawchan)
              known == frame_descriptors.some
                       /\ frame.frame_id \in DOMAIN frame_descriptors.map
          IN  IF known
              THEN /\ Len(cblog') = Len(cblog) + callbacks
                   /\ SubSeq(cblog', 1, Len(cblog)) = cblog
                   /\ \A c \in 1..callbacks :
                        /\ cblog'[Len(cblog) + c].cb = c
                        /\ cblog'[Len(cblog) + c].frame_id = frame.frame_id
                        /\ cblog'[Len(cblog) + c].timestamp = frame.timestamp
              ELSE cblog' = cblog /\ frame_descriptors' = frame_descriptors]_vars

\* A step in which the worker offered a frame to the signal channel
OfferStep == nraw' = nraw + 1

\* C13: the signal channel never holds more than 32 frames; an offer on a
\* full channel is a step the worker takes (it does not wait) that leaves
\* the channel as it was, so that the frame is in the channel neither then
\* nor later; an offer on a channel with room appends the frame and leaves
\* the frames queued before it in place.  The n-th frame offered carries
\* the timestamp 10 * n + 1.
C13_Backpressure ==
    /\ [](/\ Len(rawchan) <= RawChanCap
          /\ \A i \in 1..Len(rawchan) : rawchan[i].timestamp \div 10 <= nraw
          /\ \A i, j \in 1..Len(rawchan) :
                i < j => rawchan[i].timestamp < rawchan[j].timestamp)
    /\ [][OfferStep =>
             IF Len(rawchan) = RawChanCap
             THEN rawchan' = rawchan
             ELSE /\ Len(rawchan') = Len(rawchan) + 1
                  /\ SubSeq(rawchan', 1, Len(rawchan)) = rawchan
                  /\ rawchan'[Len(rawchan')].timestamp \div 10 = nraw']_vars

C13_DroppedOnFullWitness ==
    /\ Len(rawchan) = RawChanCap
    /\ nraw > RawChanCap
    /\ rawchan[Len(rawchan)].timestamp \div 10 < nraw

(***************************************************************************)
(* The worker under fairness: its thread runs whenever it can take a step. *)
(* Nothing is assumed of the caller or of the device, which may stay       *)
(* silent: a serial read that times out changes nothing.                   *)
(***************************************************************************)
SpecLive ==
    /\ Spec
    /\ WF_vars(WorkerDisconnected)
    /\ WF_vars(WorkerConnected)
    /\ WF_vars(WorkerAwait)

\* C14: once quit has sent Stop, the worker thread leaves its run loop.
C14_StopTerminates == (callerPc = "quit") ~> quit

\* C15: the response to a request whose caller has timed out is not put on
\* the response channel: when it arrives the worker is idle and discards it.
C15_LateResponseDiscarded ==
    (got.called /\ got.result = "Timeout" /\ got.kind \in AwaitKinds) =>
        \A i \in 1..Len(rxchan) :
            ~(rxchan[i].for = got.rid /\ rxchan[i].kind = got.kind /\ rxchan[i].err = "")

\* The worker has answered an enable_frame with Ok and is back in Connected
\* with a signal frame, read together with the acknowledgement, still in its
\* decoder.
S6Pending ==
    /\ wstate = "Connected"
    /\ decq # << >> /\ Head(decq).tag = "SignalFrame"
    /\ \E i \in 1..Len(rxchan) : rxchan[i].kind = "EnableFrame" /\ rxchan[i].err = ""

\* C16: a signal frame that follows the enable acknowledgement is handed to
\* the signal channel, however the bytes were split over the serial reads.
C16_InterleavedSignalForwarded == S6Pending ~> (decq = << >>)

(***************************************************************************)
(* sbs_view/src/signals/window_buffer.rs: the sliding-window buffer.       *)
(*                                                                         *)
(* A thread owns window (u32 milliseconds) and buf, a map from SignalId to *)
(* a deque of (timestamp, value), and serves the commands of an unbounded  *)
(* channel in the order they were sent.  A timestamp is a u32 kept as its  *)
(* halves <<hi, lo>>.  SpecWindow drives one WindowBuffer from the threads *)
(* that hold its sender; the build either checks integer overflow (the dev *)
(* profile) or wraps (the release profile).                                *)
(***************************************************************************)

U32Lt(a, b) == a[1] < b[1] \/ (a[1] = b[1] /\ a[2] < b[2])

\* a - b modulo 2^32
U32Sub(a, b) ==
    LET borrow == IF a[2] < b[2] THEN 1 ELSE 0
    IN  << (a[1] + 65536 - b[1] - borrow) % 65536, (a[2] + 65536 - b[2]) % 65536 >>

\* "(new_window * 1000.0) as u32" of a window given in units of 0.1 ms: the
\* cast drops the fraction and saturates below at 0
SetWindowMillis(new_window) ==
    IF new_window < 0 THEN U32Of(0) ELSE U32Of(new_window \div 10)

\* The windows the settings of a plot send (its DragValue ranges over 1 to
\* 100 seconds): 1.0005 s
WbWindows == { 10005 }

\* The timestamps of the frames of the device: 500, 2000 and 4294967000
WbTimestamps == { U32Of(500), U32Of(2000), << 65535, 65240 >> }

\* The frame the callback receives: frame 1 with the signals a, b and c, and
\* data[i] the value of the i-th signal
WbFrameId == 1
WbFrameSignals == << "a", "b", "c" >>

SignalFrameValue(ts) ==
    [timestamp |-> ts, names |-> WbFrameSignals, data |-> << 7, 8, 9 >>]

\* A Cmd: new_window, signal_id and value are those of the variants that
\* carry them
Cmd(tag, new_window, signal_id, value) ==
    [tag |-> tag, new_window |-> new_window, signal_id |-> signal_id, value |-> value]

\* The loop with ">=" in place of ">"
RECURSIVE TrimFrontInclusive(_, _, _, _)
TrimFrontInclusive(q, ts, w, checks) ==
    IF q = << >> THEN [q |-> q, panic |-> FALSE]
    ELSE IF checks /\ U32Lt(ts, Head(q).t) THEN [q |-> q, panic |-> TRUE]
    ELSE IF ~U32Lt(U32Sub(ts, Head(q).t), w) THEN TrimFrontInclusive(Tail(q), ts, w, checks)
    ELSE [q |-> q, panic |-> FALSE]

\* The while loop of ProcessFrame on one deque: pop the front while
\* (value.timestamp - ts) > window.  The subtraction panics in a build that
\* checks overflow when ts is the larger, and wraps otherwise.
RECURSIVE TrimFront(_, _, _, _)
TrimFront(q, ts, w, checks) ==
    IF q = << >> THEN [q |-> q, panic |-> FALSE]
    ELSE IF checks /\ U32Lt(ts, Head(q).t) THEN [q |-> q, panic |-> TRUE]
    ELSE IF U32Lt(w, U32Sub(ts, Head(q).t)) THEN TrimFront(Tail(q), ts, w, checks)
    ELSE [q |-> q, panic |-> FALSE]

\* The body with buf.entry(signal_id).or_default() in place of get_mut
ProcessSignalOrDefault(b, value, i, w, checks) ==
    LET signal_id == << WbFrameId, value.names[i] >>
    IN  IF b.panic \/ signal_id \notin WbSignals THEN b
        ELSE CHOOSE r \in { [buf |-> [b.buf EXCEPT ![signal_id] = [has |-> TRUE, q |-> t.q]],
                             panic |-> t.panic] :
                            t \in { TrimFront(Append(b.buf[signal_id].q,
                                                     [t |-> value.timestamp, v |-> value.data[i]]),
                                              value.timestamp, w, checks) } } : TRUE

\* The body of the for loop of ProcessFrame for signal i of the value, on
\* [buf, panic]
ProcessSignal(b, value, i, w, checks) ==
    LET signal_id == << WbFrameId, value.names[i] >>
    IN  IF b.panic \/ signal_id \notin WbSignals \/ ~b.buf[signal_id].has THEN b
        ELSE \* bound through a singleton set so that it is computed once
             CHOOSE r \in { [buf |-> [b.buf EXCEPT ![signal_id].q = t.q], panic |-> t.panic] :
                            t \in { TrimFront(Append(b.buf[signal_id].q,
                                                     [t |-> value.timestamp, v |-> value.data[i]]),
                                              value.timestamp, w, checks) } } : TRUE

RECURSIVE ProcessFrame(_, _, _, _, _)
ProcessFrame(b, value, i, w, checks) ==
    IF i > Len(value.names) THEN b
    ELSE ProcessFrame(ProcessSignal(b, value, i, w, checks), value, i + 1, w, checks)

\* One iteration of the loop of the thread on [window, buf, out, panic, quit]:
\* out is the snapshot sent, if any.  rx_open is whether the receiver of the
\* snapshot channel still exists.
HandleCmd(st, cmd, checks, rx_open) ==
    IF cmd.tag = "SetWindow" THEN [st EXCEPT !.window = SetWindowMillis(cmd.new_window)]
    ELSE IF cmd.tag = "AddSignal"
    THEN IF ~st.buf[cmd.signal_id].has
         THEN [st EXCEPT !.buf[cmd.signal_id] = [has |-> TRUE, q |-> << >>]]
         ELSE st
    ELSE IF cmd.tag = "RemoveSignal"
    THEN IF st.buf[cmd.signal_id].has
         THEN [st EXCEPT !.buf[cmd.signal_id] = NoDeque]
         ELSE st
    ELSE IF cmd.tag = "ProcessFrame"
    THEN CHOOSE r \in { IF b.panic THEN [st EXCEPT !.panic = TRUE]
                        ELSE [st EXCEPT !.buf = b.buf] :
                        b \in { ProcessFrame([buf |-> st.buf, panic |-> FALSE], cmd.value, 1,
                                             st.window, checks) } } : TRUE
    ELSE IF cmd.tag = "TakeSnapshot"
    THEN IF rx_open THEN [st EXCEPT !.out = << st.buf >>] ELSE [st EXCEPT !.panic = TRUE]
    ELSE [st EXCEPT !.quit = TRUE]

WorkerState(w, b) == [window |-> w, buf |-> b, out |-> << >>, panic |-> FALSE, quit |-> FALSE]

\* while let Ok(cmd) = cmd_rx.recv(): the thread takes the oldest command
rw_thread ==
    /\ ~wbPanicked /\ ~wbQuit
    /\ cmdq # << >>
    /\ \E st \in { HandleCmd(WorkerState(window, buf), Head(cmdq), overflow_checks, ~dropped) } :
          /\ window' = st.window
          /\ buf' = st.buf
          /\ snapq' = snapq \o st.out
          /\ wbPanicked' = st.panic
          /\ wbQuit' = st.quit
    /\ cmdq' = Tail(cmdq)
    /\ UNCHANGED << overflow_checks, senderPanicked, dropped, nwcmds, expected, lastPoll >>
    /\ UNCHANGED codecVars
    /\ UNCHANGED workerVars
    /\ UNCHANGED clientVars
    /\ UNCHANGED valueVars
    /\ UNCHANGED viewVars

\* The state of the thread once it has served the commands of q
RECURSIVE ApplyAll(_, _, _)
ApplyAll(st, q, checks) ==
    IF q = << >> \/ st.panic \/ st.quit THEN st
    ELSE ApplyAll([HandleCmd(st, Head(q), checks, TRUE) EXCEPT !.out = << >>], Tail(q), checks)

\* cmd_tx.send(cmd).expect(..): the send fails, and the sender panics, once
\* the thread has ended and dropped the receiver
SendUpTo(cmd, max) ==
    /\ ~senderPanicked
    /\ nwcmds < max
    /\ nwcmds' = nwcmds + 1
    /\ IF wbPanicked \/ wbQuit
       THEN senderPanicked' = TRUE /\ cmdq' = cmdq
       ELSE senderPanicked' = FALSE /\ cmdq' = Append(cmdq, cmd)
    /\ UNCHANGED << overflow_checks, window, buf, snapq, wbPanicked, wbQuit, lastPoll >>
    /\ UNCHANGED codecVars
    /\ UNCHANGED workerVars
    /\ UNCHANGED clientVars
    /\ UNCHANGED valueVars
    /\ UNCHANGED viewVars

Send(cmd) == SendUpTo(cmd, MaxWindowCmds)

set_window(w) == ~dropped /\ Send(Cmd("SetWindow", w, << >>, << >>)) /\ UNCHANGED << dropped, expected >>

add_signal(s) == ~dropped /\ Send(Cmd("AddSignal", 0, s, << >>)) /\ UNCHANGED << dropped, expected >>

remove_signal(s) == ~dropped /\ Send(Cmd("RemoveSignal", 0, s, << >>)) /\ UNCHANGED << dropped, expected >>

\* The callback holds a clone of the sender and outlives the WindowBuffer
callback(value) == Send(Cmd("ProcessFrame", 0, << >>, value)) /\ UNCHANGED << dropped, expected >>

\* expected records what the request is to give: the buffer and the window of
\* the thread once it has served the commands sent before the request
request_snapshot ==
    /\ ~dropped
    /\ Send(Cmd("TakeSnapshot", 0, << >>, << >>))
    /\ expected' = Append(expected, ApplyAll(WorkerState(window, buf), cmdq, overflow_checks))
    /\ UNCHANGED dropped

\* snapshot_rx.try_recv()
poll_snapshot ==
    /\ ~dropped /\ ~senderPanicked
    /\ IF snapq # << >>
       THEN /\ lastPoll' = [called |-> TRUE, some |-> TRUE]
            /\ snapq' = Tail(snapq)
            /\ expected' = Tail(expected)
       ELSE /\ lastPoll' = [called |-> TRUE, some |-> FALSE]
            /\ UNCHANGED << snapq, expected >>
    /\ UNCHANGED << overflow_checks, window, buf, cmdq, wbPanicked, wbQuit, senderPanicked,
                    dropped, nwcmds >>
    /\ UNCHANGED codecVars
    /\ UNCHANGED workerVars
    /\ UNCHANGED clientVars
    /\ UNCHANGED valueVars
    /\ UNCHANGED viewVars

\* Drop for WindowBuffer sends Quit; the receiver of the snapshot channel goes
\* with the WindowBuffer
drop ==
    /\ ~dropped
    /\ Send(Cmd("Quit", 0, << >>, << >>))
    /\ dropped' = TRUE
    /\ UNCHANGED expected

WindowInit ==
    /\ CodecIdle /\ WorkerIdle /\ ClientIdle /\ ValueIdle /\ ViewIdle
    /\ overflow_checks \in BOOLEAN
    /\ WindowNew

WindowNext ==
    \/ \E w \in WbWindows : set_window(w)
    \/ \E s \in WbSignals : add_signal(s)
    \/ remove_signal(<< 1, "a" >>)
    \/ \E ts \in WbTimestamps : callback(SignalFrameValue(ts))
    \/ request_snapshot
    \/ poll_snapshot
    \/ drop
    \/ rw_thread

SpecWindow == WindowInit /\ [][WindowNext]_vars

\* A step in which the thread sends a snapshot
TakeSnapshotStep == Len(snapq') = Len(snapq) + 1

\* C17: whatever SetWindow, AddSignal, RemoveSignal and ProcessFrame commands
\* came before, in every snapshot the largest timestamp of a deque exceeds
\* the smallest by at most the window in effect when the snapshot is taken.
C17_WindowTrim ==
    [][TakeSnapshotStep =>
        \A s \in WbSignals : \A q \in { snapq'[Len(snapq')][s].q } :
            \A i, j \in 1..Len(q) :
                U32Lt(q[j].t, q[i].t) => ~U32Lt(window, U32Sub(q[i].t, q[j].t))]_vars

\* A step in which the thread serves a ProcessFrame
ProcessFrameStep ==
    cmdq # << >> /\ cmdq' = Tail(cmdq) /\ Head(cmdq).tag = "ProcessFrame"

\* C18: when the thread serves a frame whose timestamp is smaller than the
\* timestamp at the front of a tracked deque, it keeps that front sample and
\* keeps running.
C18_WrapTreatedInRange ==
    [][ProcessFrameStep =>
        \A s \in WbSignals :
            (/\ buf[s].has /\ buf[s].q # << >>
             /\ \E i \in 1..Len(Head(cmdq).value.names) :
                   s = << WbFrameId, Head(cmdq).value.names[i] >>
             /\ U32Lt(Head(cmdq).value.timestamp, Head(buf[s].q).t))
            => (/\ ~wbPanicked'
                /\ buf'[s].has /\ buf'[s].q # << >>
                /\ Head(buf'[s].q) = Head(buf[s].q))]_vars

\* A call of poll_snapshot
PollStep == lastPoll'.called /\ cmdq' = cmdq /\ nwcmds' = nwcmds

\* The snapshots on the channel are those the oldest requests are to give, in
\* the order of the requests
SnapshotsInRequestOrder ==
    /\ Len(snapq) <= Len(expected)
    /\ \A i \in 1..Len(snapq) : snapq[i] = expected[i].buf

\* Every request has its snapshot once the thread has nothing left to serve
EveryRequestServed ==
    (~dropped /\ (cmdq = << >> \/ wbPanicked)) => Len(snapq) = Len(expected)

\* C19: every request_snapshot gives exactly one snapshot, the snapshots come
\* in the order of the requests, each is the buffer as it stood once the
\* commands sent before its request were applied, taking one changes neither
\* the buffer nor the window, and poll_snapshot returns None when no snapshot
\* is waiting.
C19_SnapshotPerRequest ==
    /\ [](SnapshotsInRequestOrder /\ EveryRequestServed)
    /\ [][TakeSnapshotStep => (buf' = buf /\ window' = window)]_vars
    /\ [][(PollStep /\ snapq = << >>) => (~lastPoll'.some /\ snapq' = snapq)]_vars

\* C20: when a get-frame-info response holds a signal type string that
\* parse_type_name cannot parse, the codec gives an Err event for the frame
\* and is back in StartWord once the frame has been fed and decoded; it is
\* not left in the SignalType substate.
C20_UnparsedTypeErr ==
    (meta.kind = "unparsed" /\ FedAndDrained) =>
        /\ events # << >> /\ events[1].tag = "Err"
        /\ dec.state.tag = "StartWord"

\* C21: a frame whose start char is '(' is a null frame: the codec requires
\* ')' , the CRC and FRAME_END after it and gives Err when one of them is
\* wrong, and a well-formed null frame is consumed whole without an event.
C21_NullFrameRecognised ==
    /\ (meta.kind = "null" /\ FedAndDrained) =>
           /\ events = << >>
           /\ dec.state.tag = "StartWord"
           /\ unread_bytes_count(dec) = 0
    /\ (meta.kind = "nullbad" /\ FedAndDrained) =>
           Len(events) = 1 /\ events[1].tag = "Err"

\* C22: when the device answers an outstanding command with a command frame
\* of another kind, the caller of that command receives WrongFrame, whichever
\* of list_frames, get_frame_info, enable_frame, disable_frame it called, and
\* the worker is back in Connected.
C22_WrongFrameToCaller ==
    /\ []((/\ got.called /\ got.received /\ got.kind \in AwaitKinds
           /\ got.res.for = got.rid /\ got.res.err = "WrongFrame")
          => got.result = "WrongFrame")
    /\ [][(/\ wstate \in AwaitKinds
           /\ Len(rxchan') = Len(rxchan) + 1
           /\ rxchan'[Len(rxchan')].err = "WrongFrame")
          => wstate' = "Connected"]_vars

\* What the reads bring in SpecCommands: nothing, a codec Err, or an
\* acknowledgement with a signal frame behind it (read_response leaves the
\* signal frame in the decoder)
CommandOutcomes ==
    { [k |-> "TimedOut", evs |-> << >>],
      [k |-> "Ok", evs |-> << DevEv("Err", "") >>],
      [k |-> "Ok", evs |-> << DevEv("CmdFrame", "EnableFrame"), DevEv("SignalFrame", "") >>] }

CommandsNext ==
    \/ WorkerDisconnected
    \/ WorkerConnectedOn(CommandOutcomes)
    \/ WorkerAwaitOn(CommandOutcomes)
    \/ \E kind \in RequestKinds : CallerSendUpTo(kind, MaxCommands)
    \/ CallerRecv
    \/ CallerTimeout
    \/ CallerQuit
    \/ Dispatch

\* The worker and its caller with up to MaxCommands requests
SpecCommands == Init /\ [][CommandsNext]_vars

\* A step in which the worker takes a command off the request channel
CommandStep == txchan # << >> /\ txchan' = Tail(txchan)

InvalidCommandRes(cmd) == Res("Error", "InvalidCommand", cmd.rid)

\* C23: a command the worker's state cannot service is answered with
\* InvalidCommand and changes nothing.  In Disconnected every command but
\* Connect and Stop is answered so and the worker stays Disconnected without
\* a port; in Connected a Connect is answered so and the worker stays
\* Connected with its port, and its decoder changes only by what the read of
\* the same iteration brings.  The caller receives InvalidCommand.
C23_InvalidCommand ==
    /\ [][(CommandStep /\ wstate = "Disconnected"
                       /\ Head(txchan).kind \notin { "Connect", "Stop" })
          => /\ rxchan' = Append(rxchan, InvalidCommandRes(Head(txchan)))
             /\ wstate' = "Disconnected" /\ ~serial /\ ~serial'
             /\ decq' = decq /\ rawchan' = rawchan /\ quit' = quit]_vars
    /\ [][(CommandStep /\ wstate = "Connected" /\ Head(txchan).kind = "Connect")
          => /\ Len(rxchan') > Len(rxchan)
             /\ SubSeq(rxchan', 1, Len(rxchan) + 1)
                    = Append(rxchan, InvalidCommandRes(Head(txchan)))
             /\ wstate' = "Connected" /\ serial /\ serial' /\ quit' = quit
             /\ (ndev' = ndev =>
                    /\ decq' = decq /\ rawchan' = rawchan
                    /\ Len(rxchan') = Len(rxchan) + 1)]_vars
    /\ []((got.called /\ got.received /\ got.res = InvalidCommandRes(callerReq))
          => got.result = "InvalidCommand")

\* The caller of a Connect sent while Connected has received InvalidCommand
C23_InvalidConnectWitness ==
    /\ got.called /\ got.kind = "Connect" /\ got.result = "InvalidCommand"
    /\ wstate = "Connected" /\ serial /\ decq # << >>

\* The caller of a command sent while Disconnected has received
\* InvalidCommand
C23_InvalidWhileDisconnectedWitness ==
    /\ got.called /\ got.kind \in AwaitKinds /\ got.result = "InvalidCommand"
    /\ wstate = "Disconnected" /\ ~serial

\* C24: the worker puts a response on the response channel only for a
\* command: one response in a step that takes a command or that ends the
\* wait for a response frame, and none while it is idle in Connected, where a
\* codec Err or an unexpected command frame is dropped.
C24_ResponsesOnlyForCommands ==
    [][Len(rxchan') > Len(rxchan)
       => /\ Len(rxchan') = Len(rxchan) + 1
          /\ CommandStep \/ wstate \in AwaitKinds]_vars

(***************************************************************************)
(* sbs_core/src/{decode,value}.rs: decoding one signal and projecting it   *)
(* to f64.  SpecValue draws a type and the bytes of a BinaryReader, calls  *)
(* decode_bytes and converts the value into f64, in a build that checks    *)
(* integer overflow or in one that does not.                               *)
(*                                                                         *)
(* An f64 is [kind, neg, num, den]: kind is "finite", "inf" or "nan", and  *)
(* a finite one is (-1)^neg * num / 2^den.  The raws of the model are far  *)
(* below 2^53, so "raw as f64" is exact, and so is a division by a power   *)
(* of two.                                                                 *)
(***************************************************************************)
F64(kind, neg, num, den) ==
    [called |-> TRUE, kind |-> kind, neg |-> neg, num |-> num, den |-> den, panic |-> FALSE]

F64Panic == [NoF64 EXCEPT !.called = TRUE, !.panic = TRUE]

\* The i32 "2 << n" for n >= 0, as [panic, zero, neg, log2]: the value is 0
\* or (-1)^neg * 2^log2.  A shift by 32 or more panics in a build that
\* checks overflow and shifts by n mod 32 otherwise; the bits shifted past
\* bit 31 are lost and bit 31 is the sign.
TwoShl(n, checks) ==
    IF n >= 32 /\ checks THEN [panic |-> TRUE, zero |-> FALSE, neg |-> FALSE, log2 |-> 0]
    ELSE LET m == n % 32
         IN  [panic |-> FALSE, zero |-> m = 31, neg |-> m = 30,
              log2 |-> IF m = 31 THEN 0 ELSE m + 1]

\* impl Into<f64> for Value
into_f64(v, checks) ==
    IF v.tag = "SFix" THEN F64Panic
    ELSE IF v.tag # "UFix" THEN F64("finite", v.raw < 0, IF v.raw < 0 THEN 0 - v.raw ELSE v.raw, 0)
    ELSE IF v.e < 0
    THEN LET f == TwoShl(0 - v.e - 1, checks)
         IN  IF f.panic THEN F64Panic
             ELSE IF f.zero THEN (IF v.raw = 0 THEN F64("nan", FALSE, 0, 0)
                                  ELSE F64("inf", FALSE, 0, 0))
             ELSE F64("finite", f.neg /\ v.raw # 0, v.raw, f.log2)
    ELSE IF v.e > 0
    THEN LET f == TwoShl(v.e - 1, checks)
         IN  IF f.panic THEN F64Panic
             ELSE IF f.zero THEN F64("finite", FALSE, 0, 0)
             ELSE F64("finite", f.neg /\ v.raw # 0, v.raw, 0 - f.log2)
    ELSE F64("finite", FALSE, v.raw, 0)

\* a < b for two f64 of the same scale
F64Less(a, b) ==
    /\ a.kind = "finite" /\ b.kind = "finite" /\ a.den = b.den
    /\ (IF a.neg THEN 0 - a.num ELSE a.num) < (IF b.neg THEN 0 - b.num ELSE b.num)

\* The exponents and word lengths of the fixed-point types of the model
FixExps == { 0, -1, -2, -30, -31, -32, -33, 3 }
FixWidths == { 8, 16, 32, 64, 65 }

\* The types parse_type_name can give
ValueTypes ==
    { Ty(t, 0, 0) : t \in { "Uint8", "Uint16", "Uint32", "Int8", "Int16", "Int32", "Float32" } }
    \cup { Ty(t, w, e) : t \in { "UFix", "SFix" }, w \in FixWidths, e \in FixExps }

\* The bytes left in a frame's data when a signal is decoded
ReaderBytes ==
    { << >>, << 200 >>, << 7, 1 >>, << 7, 1, 0 >>, << 7, 1, 0, 0 >>,
      << 7, 1, 0, 0, 0, 0, 0, 0, 9 >> }

\* signal.ty.decode_bytes(&mut reader)
DecodeBytes ==
    /\ ~decoded.called
    /\ \E r \in { decode_bytes(sigTy, reader) } :
          /\ decoded' = [called |-> TRUE, some |-> r.some, tag |-> r.val.tag,
                         raw |-> r.val.raw, read |-> Len(reader) - Len(r.rest),
                         panic |-> r.panic]
          /\ reader' = r.rest
    /\ UNCHANGED << sigTy, projected >>
    /\ UNCHANGED codecVars
    /\ UNCHANGED workerVars
    /\ UNCHANGED clientVars
    /\ UNCHANGED windowVars
    /\ UNCHANGED viewVars

\* let x: f64 = value.into()
IntoF64 ==
    /\ decoded.called /\ decoded.some /\ ~projected.called
    /\ projected' = into_f64(Value(decoded.tag, sigTy.w, sigTy.e, decoded.raw), overflow_checks)
    /\ UNCHANGED << sigTy, reader, decoded >>
    /\ UNCHANGED codecVars
    /\ UNCHANGED workerVars
    /\ UNCHANGED clientVars
    /\ UNCHANGED windowVars
    /\ UNCHANGED viewVars

ValueInit ==
    /\ CodecIdle /\ WorkerIdle /\ ClientIdle /\ ViewIdle
    /\ overflow_checks \in BOOLEAN /\ WindowNew
    /\ sigTy \in ValueTypes
    /\ reader \in ReaderBytes
    /\ decoded = NoDecode
    /\ projected = NoF64

ValueNext == DecodeBytes \/ IntoF64

SpecValue == ValueInit /\ [][ValueNext]_vars

\* C25: for every type the schema discovery can produce, decode_bytes either
\* consumes exactly the width of the type (1, 2 or 4 bytes, or the 1, 2, 4 or
\* 8 byte container of a fixed-point type) and returns a value of that type,
\* or returns None and consumes nothing when fewer bytes remain; it never
\* aborts.
C25_DecodeBytesTotal ==
    LET width == IF sigTy.tag \in { "Uint8", "Int8" } THEN 1
                 ELSE IF sigTy.tag \in { "Uint16", "Int16" } THEN 2
                 ELSE IF sigTy.tag \in { "Uint32", "Int32", "Float32" } THEN 4
                 ELSE IF sigTy.w <= 8 THEN 1
                 ELSE IF sigTy.w <= 16 THEN 2
                 ELSE IF sigTy.w <= 32 THEN 4
                 ELSE 8
    IN  decoded.called =>
            /\ ~decoded.panic
            /\ IF decoded.some
               THEN decoded.read = width /\ decoded.tag = sigTy.tag
               ELSE decoded.read = 0 /\ Len(reader) < width

\* C26: for ufix(w, e) with e <= 0 the projection to f64 scales raw by
\* exactly 2^e, so that raw + 1 projects to a greater number than raw for
\* every raw < 2^w - 1; the shift that builds the scale factor neither
\* overflows nor changes sign.
C26_UFixProjectionMonotone ==
    (/\ projected.called /\ decoded.tag = "UFix" /\ sigTy.e <= 0
     /\ (sigTy.w > 16 \/ decoded.raw < 2 ^ sigTy.w - 1))
    => /\ projected = F64("finite", FALSE, decoded.raw, 0 - sigTy.e)
       /\ F64Less(projected,
                  into_f64(Value("UFix", sigTy.w, sigTy.e, decoded.raw + 1), overflow_checks))

\* C27: a frame whose LEN field holds another value than its payload length,
\* all its other bytes being those of the valid frame, gives the event of
\* the valid frame and leaves the codec as the valid frame does: in
\* StartWord with the frame's bytes dropped.
C27_LenAdvisory ==
    (meta.kind = "len" /\ (panicked \/ FedAndDrained)) =>
        /\ ~panicked
        /\ events = meta.expect
        /\ dec.state = StartWord
        /\ dec.buffer = << >> /\ dec.offset = 0
\* The return of a successful get_frames
GetFramesOk == clientPc = "gf_install" /\ clientPc' = "idle"

\* C28: the list a successful get_frames returns holds the descriptor of
\* every frame of the descriptor cache once and nothing else, by strictly
\* ascending frame id; and a list once returned is changed by no later step
\* that is not the return of another successful get_frames, whatever that
\* step does to the cache.
C28_GetFramesSortedCopy ==
    /\ [][GetFramesOk =>
             /\ ret' = Returned("get_frames", "Ok", listed'.frames)
             /\ frame_descriptors'.some
             /\ Len(listed'.frames) = Cardinality(DOMAIN frame_descriptors'.map)
             /\ \A k \in DOMAIN frame_descriptors'.map :
                    \E i \in 1..Len(listed'.frames) :
                        listed'.frames[i] = frame_descriptors'.map[k].descriptor
             /\ \A i \in 1..(Len(listed'.frames) - 1) :
                    listed'.frames[i].id < listed'.frames[i + 1].id]_vars
    /\ [][~GetFramesOk => listed' = listed]_vars

\* A list of two descriptors was returned and the cache has since been
\* changed by enable_frame or disable_frame.
C28_ListedThenChangedWitness ==
    /\ listed.some /\ Len(listed.frames) = 2
    /\ listed.frames[1].id = 1 /\ listed.frames[2].id = 2
    /\ ret.kind \in { "enable_frame", "disable_frame" } /\ ret.result = "Ok"
    /\ frame_descriptors.some
    /\ \E i \in 1..2 : frame_descriptors.map[i].descriptor # listed.frames[i]
\* A decode call that returns Err
ErrStep == Len(events') = Len(events) + 1 /\ events'[Len(events')].tag = "Err"

\* C29: a decode call that returns Err leaves the codec in StartWord with
\* the cursor at the start of a buffer that is the unread end of the buffer
\* before the call; and a frame that draws one of the four Errs (payload end
\* char, CRC, frame end byte, enabled byte), followed by a valid frame, gives
\* exactly that one Err and then the event of the valid frame.
C29_ErrLeavesCodecUsable ==
    /\ [][ErrStep =>
             /\ dec'.state = StartWord /\ dec'.offset = 0
             /\ Len(dec'.buffer) < Len(dec.buffer) - dec.offset
             /\ dec'.buffer = SubSeq(dec.buffer, Len(dec.buffer) - Len(dec'.buffer) + 1,
                                     Len(dec.buffer))]_vars
    /\ [](meta.kind = "errthen" =>
             /\ ~panicked
             /\ FedAndDrained =>
                    /\ Len(events) = 2
                    /\ events[1].tag = "Err" /\ events[1].msg = meta.fkind
                    /\ events[2] = meta.expect[1]
                    /\ dec.state = StartWord /\ dec.buffer = << >>)

\* The frame with the enabled byte 2 and the signal frame after it were fed
\* and decoded: one Err, then the signal frame.
C29_ErrThenFrameWitness ==
    /\ meta.kind = "errthen" /\ meta.fkind = "Invalid frame enabled value"
    /\ FedAndDrained /\ Len(events) = 2
    /\ events[1].tag = "Err" /\ events[2].tag = "SignalFrame"
    /\ last.called /\ last.result = "None"
\* C30: when the unread bytes are fewer than the field of the current state
\* takes, decode returns None and leaves the whole decoder as it was: state,
\* cursor, buffer and the frame under construction; and with the missing
\* bytes added, decode takes up that field: it consumes bytes, returns an
\* event, or panics in from_utf8 on a name.
C30_ShortFieldConsumesNothing ==
    (~panicked /\ unread_bytes_count(dec) < FieldWidth(dec)) =>
        /\ \A r \in { decode(dec) } : ~r.panic /\ r.result = EvNone /\ r.d = dec
        /\ \A need \in { FieldWidth(dec) - unread_bytes_count(dec) } :
               pos + need <= Len(stream) =>
                   \A fed \in { add_data(dec, SubSeq(stream, pos + 1, pos + need)) } :
                       \A r \in { decode(fed) } :
                           \/ r.panic
                           \/ is_some(r.result)
                           \/ unread_bytes_count(r.d) < unread_bytes_count(fed)

\* decode was called with part of the data block of a signal frame in the
\* buffer and returned None; the cursor is past the frame's header, the part
\* of the block is unread.
C30_PartialDataWitness ==
    /\ last.called /\ ~last.complete /\ ~last.consumed /\ last.result = "None"
    /\ dec.state.tag = "DataFrame" /\ dec.state.inner = "Data"
    /\ dec.offset > 0 /\ unread_bytes_count(dec) >= 1
    /\ unread_bytes_count(dec) < FieldWidth(dec)
    /\ ~panicked /\ drained
\* A step in which the worker calls ser.write with a request
WriteStep == lastWrite' # lastWrite

\* C31: the worker writes a request only in Connected; it enters an
\* expecting-response state only from Connected, in a step that wrote the
\* request of that state with success and sent no response; a failed write
\* is answered with an error and leaves the worker Connected; it leaves an
\* expecting-response state only to Connected, in a step that sends exactly
\* one response; and while it expects a response, the request it wrote last
\* is the one it is servicing.
C31_OneRequestOutstanding ==
    /\ [][WriteStep =>
             /\ wstate = "Connected" /\ txchan # << >>
             /\ lastWrite'.kind = Head(txchan).kind /\ lastWrite'.rid = Head(txchan).rid]_vars
    /\ [][(wstate' \in AwaitKinds /\ wstate' # wstate) =>
             /\ wstate = "Connected"
             /\ WriteStep /\ lastWrite'.ok /\ lastWrite'.kind = wstate'
             /\ rxchan' = rxchan]_vars
    /\ [][(WriteStep /\ ~lastWrite'.ok) =>
             /\ wstate' = "Connected"
             /\ Len(rxchan') > Len(rxchan)
             /\ rxchan'[Len(rxchan) + 1]
                    = Res(lastWrite'.kind, "SerialError", lastWrite'.rid)]_vars
    /\ [][(wstate \in AwaitKinds /\ wstate' # wstate) =>
             /\ wstate' = "Connected"
             /\ Len(rxchan') = Len(rxchan) + 1
             /\ ~WriteStep]_vars
    /\ [](wstate \in AwaitKinds =>
             /\ lastWrite.called /\ lastWrite.ok
             /\ lastWrite.kind = wstate /\ lastWrite.rid = servicing)

\* A request went the whole way: written in Connected, awaited, answered,
\* and the worker is back in Connected.
C31_RequestAnsweredWitness ==
    /\ got.called /\ got.received /\ got.kind = "EnableFrame" /\ got.result = "Ok"
    /\ lastWrite.called /\ lastWrite.ok /\ lastWrite.rid = got.rid
    /\ wstate = "Connected"

\* The caller of a request whose write failed has received SerialError
C31_FailedWriteWitness ==
    /\ got.called /\ got.received /\ got.result = "SerialError"
    /\ lastWrite.called /\ ~lastWrite.ok /\ lastWrite.rid = got.rid
    /\ wstate = "Connected"
(***************************************************************************)
(* The worker waiting for a response: every kind of read outcome, one or   *)
(* two events to a read.                                                   *)
(***************************************************************************)
AwaitOutcomes ==
    { [k |-> "TimedOut", evs |-> << >>], [k |-> "Error", evs |-> << >>],
      [k |-> "Ok", evs |-> << DevEv("SignalFrame", "") >>],
      [k |-> "Ok", evs |-> << DevEv("Err", "") >>],
      [k |-> "Ok", evs |-> << DevEv("CmdFrame", "EnableFrame") >>],
      [k |-> "Ok", evs |-> << DevEv("SignalFrame", ""), DevEv("CmdFrame", "ListFrames") >>],
      [k |-> "Ok", evs |-> << DevEv("CmdFrame", "EnableFrame"), DevEv("SignalFrame", "") >>] }

AwaitNext ==
    \/ WorkerDisconnected
    \/ WorkerConnectedOn(AwaitOutcomes)
    \/ WorkerAwaitOn(AwaitOutcomes)
    \/ \E kind \in RequestKinds : CallerSendUpTo(kind, MaxAwaits)
    \/ CallerRecv
    \/ CallerTimeout

SpecAwait == Init /\ [][AwaitNext]_vars

\* The raw frames of the SignalFrame events of q, in order
RECURSIVE SignalFramesOf(_)
SignalFramesOf(q) ==
    IF q = << >> THEN << >>
    ELSE (IF Head(q).tag = "SignalFrame" THEN << Head(q).rsf >> ELSE << >>)
             \o SignalFramesOf(Tail(q))

\* C32: while the worker waits for a response, a step that does not end
\* the wait sends no response; a step that ends it goes to Connected, sends
\* one response and is the step of a read that brought a CmdFrame, an Err or
\* a read error, never a timeout; and the SignalFrame events decoded in a
\* read, up to the event that ends the wait, are all put on the signal
\* channel in order, the wait going on when the read held nothing else.
C32_SignalFramesDoNotEndWait ==
    /\ [][(wstate \in AwaitKinds /\ wstate' = wstate) =>
             (rxchan' = rxchan \/ rxchan' = Tail(rxchan))]_vars
    /\ [][(wstate \in AwaitKinds /\ wstate' # wstate) =>
             /\ wstate' = "Connected"
             /\ Len(rxchan') = Len(rxchan) + 1
             /\ ndev' > ndev]_vars
    /\ [][(wstate \in AwaitKinds /\ ndev' > ndev) =>
             \E r \in AwaitOutcomes :
                 LET all == decq \o r.evs
                     n == Len(all) - Len(decq')
                     read == SubSeq(all, 1, n)
                 IN  /\ Cost(r) = ndev' - ndev
                     /\ n >= 0 /\ decq' = SubSeq(all, n + 1, Len(all))
                     /\ rawchan' = rawchan \o SignalFramesOf(read)
                     /\ IF wstate' = wstate
                        THEN /\ r.k = "Ok" /\ decq' = << >> /\ n >= 1
                             /\ \A i \in 1..n : read[i].tag = "SignalFrame"
                        ELSE \/ r.k = "Error" /\ n = 0
                             \/ /\ r.k = "Ok" /\ n >= 1
                                /\ read[n].tag \in { "CmdFrame", "Err" }
                                /\ \A i \in 1..(n - 1) : read[i].tag = "SignalFrame"]_vars

\* The worker has read a signal frame while waiting: the frame is on the
\* signal channel, no response was sent and the worker still waits.
C32_StillWaitingWitness ==
    /\ wstate \in AwaitKinds /\ ndev = 1
    /\ Len(rawchan) = 1 /\ decq = << >>
    /\ rxchan = << >> /\ callerPc = "waiting" /\ callerReq.rid = servicing
(***************************************************************************)
(* The worker and its port over connections: Connect, a request, Stop, and *)
(* CommandReq::Disconnect, which no method of SerialWorker sends and which *)
(* is put on the request channel here to drive the worker's arm for it.    *)
(***************************************************************************)
PortOutcomes ==
    { [k |-> "TimedOut", evs |-> << >>], [k |-> "Error", evs |-> << >>],
      [k |-> "Ok", evs |-> << DevEv("CmdFrame", "EnableFrame"), DevEv("SignalFrame", "") >>] }

\* txchan_tx.send(CommandReq::Disconnect): the worker sends no response to
\* it, and nothing waits for one.
SendDisconnect ==
    /\ callerPc = "idle" /\ nreq < MaxPortCmds
    /\ Len(txchan) < ChanCap
    /\ txchan' = Append(txchan, Req("Disconnect", nreq + 1))
    /\ nreq' = nreq + 1
    /\ UNCHANGED << wstate, quit, rxchan, rawchan, decq, callerPc, callerReq, ndev,
                    servicing, got >>
    /\ UNCHANGED << serial, lastWrite >>
    /\ UNCHANGED codecVars
    /\ UNCHANGED windowVars
    /\ UNCHANGED valueVars
    /\ UNCHANGED clientVars
    /\ UNCHANGED viewVars

PortNext ==
    \/ WorkerDisconnected
    \/ WorkerConnectedOn(PortOutcomes)
    \/ WorkerAwaitOn(PortOutcomes)
    \/ \E kind \in { "Connect", "EnableFrame" } : CallerSendUpTo(kind, MaxPortCmds)
    \/ SendDisconnect
    \/ CallerRecv
    \/ CallerTimeout
    \/ CallerQuit

SpecPort == Init /\ [][PortNext]_vars

\* C33: the step in which the worker goes from Disconnected to Connected
\* takes a Connect, opens the port, leaves the decoder empty (nothing of an
\* earlier connection is left to decode) and answers Connect(Ok); a Connect
\* that fails is answered with a SerialError and leaves the worker
\* Disconnected without a port.
C33_ConnectInstallsFreshDecoder ==
    /\ [][(wstate = "Disconnected" /\ wstate' = "Connected") =>
             /\ CommandStep /\ Head(txchan).kind = "Connect"
             /\ decq' = << >>
             /\ serial'
             /\ rxchan' = Append(rxchan, Res("Connect", "", Head(txchan).rid))]_vars
    /\ [][(CommandStep /\ wstate = "Disconnected" /\ Head(txchan).kind = "Connect"
                       /\ wstate' # "Connected") =>
             /\ wstate' = "Disconnected" /\ ~serial'
             /\ rxchan' = Append(rxchan, Res("Connect", "SerialError", Head(txchan).rid))]_vars
    /\ [](wstate = "Disconnected" => ~serial)

\* The worker is connected for the second time.  In the first connection it
\* read a command frame and a signal frame in one read while it waited for
\* a response; the signal frame was still in the decoder at the Disconnect,
\* and it is neither on the signal channel nor in the decoder now.
C33_ReconnectedWitness ==
    /\ wstate = "Connected" /\ serial /\ decq = << >>
    /\ got.called /\ got.kind = "Connect" /\ got.result = "Ok"
    /\ lastWrite.called /\ lastWrite.ok /\ got.rid > lastWrite.rid
    /\ ndev = 2 /\ rawchan = << >>
\* C37: the worker holds a port exactly when its state is not Disconnected,
\* so that self.serial.as_mut().unwrap() in Connected and in the states that
\* expect a response finds one.
C37_PortIffNotDisconnected == serial <=> (wstate # "Disconnected")

\* The worker was connected, wrote a request, and has been disconnected by
\* a Disconnect: it holds no port.
C37_DisconnectedAgainWitness ==
    /\ wstate = "Disconnected" /\ ~serial
    /\ lastWrite.called /\ lastWrite.ok
    /\ ~quit

(***************************************************************************)
(* The effect of one frame on the deques.  SpecFrames drives the thread of *)
(* a WindowBuffer with the frames of a device: frame 1 with the signals a, *)
(* b and c, and a frame whose descriptor gives the name a to two signals   *)
(* (the names come from the device's answer to GetFrameInfo, and nothing   *)
(* makes them distinct).  The window is the initial 10 s or 0.             *)
(***************************************************************************)

FrameValues ==
    { SignalFrameValue(U32Of(500)), SignalFrameValue(U32Of(2000)),
      [timestamp |-> U32Of(2000), names |-> << "a", "a" >>, data |-> << 7, 8 >>] }

FrameCmd(cmd) ==
    ~dropped /\ SendUpTo(cmd, MaxFrameCmds) /\ UNCHANGED << dropped, expected >>

FramesNext ==
    \/ FrameCmd(Cmd("SetWindow", 0, << >>, << >>))
    \/ \E s \in WbSignals : FrameCmd(Cmd("AddSignal", 0, s, << >>))
    \/ FrameCmd(Cmd("RemoveSignal", 0, << 1, "a" >>, << >>))
    \/ \E value \in FrameValues : FrameCmd(Cmd("ProcessFrame", 0, << >>, value))
    \/ rw_thread

SpecFrames == WindowInit /\ [][FramesNext]_vars

\* The samples a value holds for a signal id, in the order of the value
RECURSIVE NewSamples(_, _, _)
NewSamples(s, value, i) ==
    IF i > Len(value.names) THEN << >>
    ELSE (IF s = << WbFrameId, value.names[i] >>
          THEN << [t |-> value.timestamp, v |-> value.data[i]] >>
          ELSE << >>) \o NewSamples(s, value, i + 1)

\* after is what is left of before once elements were removed at its front
\* only, followed by new
FrontRemovedThen(after, before, new) ==
    \E k \in 0..Len(before) :
        /\ after = SubSeq(before, k + 1, Len(before)) \o new
        /\ (new = << >> => k = 0)

Unread(d) == SubSeq(d.buffer, d.offset + 1, Len(d.buffer))

\* C36: the cursor offset lies between 0 and the length of the buffer; in
\* StartWord it is 0; in every other state the buffer begins with the start
\* magic of the frame being parsed and the cursor is past it; the buffer is
\* the tail of the bytes fed so far, and a decode call leaves as unread
\* bytes a tail of the bytes that were unread before it.
C36_CursorWithinBuffer ==
    /\ [](/\ 0 <= dec.offset /\ dec.offset <= Len(dec.buffer)
          /\ dec.state.tag = "StartWord" => dec.offset = 0
          /\ dec.state.tag # "StartWord" =>
                (dec.offset >= 4 /\ U32At(dec.buffer, 1) = FRAME_START)
          /\ Len(dec.buffer) <= pos
          /\ dec.buffer = SubSeq(stream, pos - Len(dec.buffer) + 1, pos))
    /\ [][(pos' = pos) =>
            \E k \in 0..Len(Unread(dec)) :
                Unread(dec') = SubSeq(Unread(dec), k + 1, Len(Unread(dec)))]_vars

\* Garbage without a false magic was dropped from the buffer byte by byte,
\* and the codec is inside the data of a signal frame: the buffer starts
\* with the frame's magic, the cursor is behind the header, and bytes of the
\* stream are still to come.
C36_MidFrameWitness ==
    /\ meta.kind = "garbage" /\ meta.clean /\ meta.glen = 3
    /\ dec.state.tag = "DataFrame" /\ dec.state.inner = "Data"
    /\ pos - Len(dec.buffer) = 3
    /\ dec.offset = 21 /\ Len(dec.buffer) = 22
    /\ pos < Len(stream) /\ ~panicked

(***************************************************************************)
(* What a success event holds, checked under SpecCodec on the streams that *)
(* hold two frames of one type (the first whole or rejected for its CRC),  *)
(* any two valid frames, and a rejected frame before a valid one.          *)
(***************************************************************************)
\* The results of decode that are no Err
SuccessEvents == SelectSeq(events, LAMBDA e : e.tag # "Err")

\* C38: the success events of a stream are, in order, the events of its
\* frames as the frames stand on the wire: a ListFrames event has the n
\* entries of its frame, a GetFrameInfo event the n signals and the enabled
\* flag of its frame, a SignalFrame event the data_len data bytes of its
\* frame, and nothing of an earlier frame of the type, whole or rejected.
C38_EventOfOwnFrame ==
    (meta.kind \in { "carry", "frames", "errthen" }) =>
        /\ ~panicked
        /\ Len(SuccessEvents) <= Len(meta.expect)
        /\ SuccessEvents = SubSeq(meta.expect, 1, Len(SuccessEvents))
        /\ FedAndDrained => SuccessEvents = meta.expect

\* A list response of one entry was rejected for its CRC, and the list
\* response of no entry behind it gave a ListFrames event without entries.
C38_EmptyAfterRejectedWitness ==
    /\ meta.kind = "carry" /\ meta.fkind = "Invalid frame CRC"
    /\ FedAndDrained
    /\ Len(events) = 2 /\ events[1].tag = "Err"
    /\ events[2] = EvListFrames(<< >>)

(***************************************************************************)
(* The worker's blocking_send on the response channel.  SpecStuck is the   *)
(* worker on a port whose every read fails with an error other than        *)
(* TimedOut (a device that was unplugged), and a caller that connects and  *)
(* then quits.  A step of the worker whose send_response finds the channel *)
(* full cannot complete: the thread waits in blocking_send.                *)
(***************************************************************************)
FailingReads == { [k |-> "Error", evs |-> << >>] }

WorkerOnFailingPort == WorkerConnectedWith(FailingReads, MaxReadErrors)

StuckNext ==
    \/ WorkerDisconnected
    \/ WorkerOnFailingPort
    \/ CallerSendUpTo("Connect", 2)
    \/ CallerRecv
    \/ CallerTimeout
    \/ CallerQuit

SpecStuck == Init /\ [][StuckNext]_vars

\* C39: the worker is never in send_response on a full response channel
\* with nobody to receive: whenever the caller is in the join of quit, the
\* worker has stopped or can complete its next pass of the loop.
C39_NeverStuckInSendResponse ==
    (/\ callerPc = "quit" /\ ~quit
     /\ wstate = "Connected" /\ Len(rxchan) = ChanCap
     /\ ndev < MaxReadErrors)
    => ENABLED WorkerOnFailingPort

(***************************************************************************)
(* sbs_view/src/views/signals_view.rs and view.rs: the signals view.  A    *)
(* SignalsViewState is taken as [signals, enable_state, enabled_signals,   *)
(* panic]; an action is [tag, frames, signal_id].  SpecView renders the    *)
(* view frame after frame; in a frame the user clicks at most one of the   *)
(* labels shown, and the tasks of the processes finish between frames.     *)
(***************************************************************************)
Action(tag, frames, signal_id) == [tag |-> tag, frames |-> frames, signal_id |-> signal_id]

frame_is_enabled(st, id) == st.signals.tag = "Loaded" /\ id \in st.signals.frames

\* enabled_signals maps a signal to the plots it is shown in; a missing key
\* is the empty set
enable_signal(st, signal_id, active_id) ==
    [st EXCEPT !.enabled_signals[signal_id] = @ \cup { active_id }]

disable_signal(st, signal_id, active_id) ==
    [st EXCEPT !.enabled_signals[signal_id] = @ \ { active_id }]

signal_enabled_for_current_plot(st, signal_id, active_id) ==
    active_id \in st.enabled_signals[signal_id]

frame_has_enabled_signals(st, frame_id) ==
    \E s \in ViewSignals : s[1] = frame_id /\ st.enabled_signals[s] # {}

\* State::apply of SignalsViewState; the assert! of EnableSignal panics
apply(st, action, active_id) ==
    IF st.panic THEN st
    ELSE IF action.tag = "FetchSignals"
    THEN [st EXCEPT !.signals = Signals("Loading", {}, NoProcess)]
    ELSE IF action.tag = "FetchSignalsSuccess"
    THEN [st EXCEPT !.signals = Signals("Loaded", action.frames, NoProcess)]
    ELSE IF action.tag = "FetchSignalsFailed"
    THEN [st EXCEPT !.signals = Signals("Error", {}, NoProcess)]
    ELSE IF action.tag = "EnableSignal"
    THEN IF st.enable_state.tag # "Idle" THEN [st EXCEPT !.panic = TRUE]
         ELSE IF frame_is_enabled(st, action.signal_id[1])
              THEN enable_signal(st, action.signal_id, active_id)
         ELSE [st EXCEPT !.enable_state =
                            EnableState("EnablingSignal", NoProcess, action.signal_id)]
    ELSE IF action.tag = "EnableSignalSuccess"
    THEN [enable_signal(st, action.signal_id, active_id)
             EXCEPT !.signals = Signals("Loaded", action.frames, NoProcess),
                    !.enable_state = Idle]
    ELSE IF action.tag = "EnableSignalFailed"
    THEN [st EXCEPT !.enable_state = Idle]
    ELSE IF action.tag = "DisableSignal"
    THEN LET st1 == disable_signal(st, action.signal_id, active_id)
         IN  IF ~frame_has_enabled_signals(st1, action.signal_id[1])
             THEN [st1 EXCEPT !.enable_state =
                                 EnableState("DisablingSignal", NoProcess, action.signal_id)]
             ELSE st1
    ELSE IF action.tag = "DisableSignalSuccess"
    THEN [st EXCEPT !.signals = Signals("Loaded", action.frames, NoProcess),
                    !.enable_state = Idle]
    ELSE \* DisableSignalFailed
         [st EXCEPT !.enable_state = Idle]

RECURSIVE apply_all(_, _, _)
apply_all(st, actions, active_id) ==
    IF actions = << >> THEN st
    ELSE apply_all(apply(st, Head(actions), active_id), Tail(actions), active_id)

\* SignalsViewState::poll_effects: the actions of the processes that are done
poll_effects(st) ==
    (IF st.signals.tag = "Loading" /\ st.signals.proc.done
     THEN << IF st.signals.proc.ok
             THEN Action("FetchSignalsSuccess", st.signals.proc.frames, NoSignal)
             ELSE Action("FetchSignalsFailed", {}, NoSignal) >>
     ELSE << >>)
    \o
    (IF st.enable_state.tag = "EnablingSignal" /\ st.enable_state.proc.done
     THEN << IF st.enable_state.proc.ok
             THEN Action("EnableSignalSuccess", st.enable_state.proc.frames,
                         st.enable_state.signal_id)
             ELSE Action("EnableSignalFailed", {}, NoSignal) >>
     ELSE IF st.enable_state.tag = "DisablingSignal" /\ st.enable_state.proc.done
     THEN << IF st.enable_state.proc.ok
             THEN Action("DisableSignalSuccess", st.enable_state.proc.frames, NoSignal)
             ELSE Action("DisableSignalFailed", {}, NoSignal) >>
     ELSE << >>)

\* SignalsView::view and signals_tree with a click on the label of signal
\* clicked (NoSignal: no click): a spinner takes no click, "+" gives
\* EnableSignal and "-" DisableSignal
view(st, clicked, active_id) ==
    IF st.signals.tag # "Loaded" \/ clicked = NoSignal THEN << >>
    ELSE LET busy == st.enable_state.tag \in { "EnablingSignal", "DisablingSignal" }
                     /\ st.enable_state.signal_id = clicked
         IN  IF busy THEN << >>
             ELSE IF ~signal_enabled_for_current_plot(st, clicked, active_id)
             THEN << Action("EnableSignal", {}, clicked) >>
             ELSE << Action("DisableSignal", {}, clicked) >>

\* ChildView::render: the effects are applied, then the actions of the view
render(st, clicked, active_id) ==
    LET st1 == apply_all(st, poll_effects(st), active_id)
    IN  apply_all(st1, view(st1, clicked, active_id), active_id)

ViewState ==
    [signals |-> svSignals, enable_state |-> svEnableState,
     enabled_signals |-> svEnabledSignals, panic |-> svPanicked]

ViewUnchangedRest ==
    /\ UNCHANGED codecVars
    /\ UNCHANGED workerVars
    /\ UNCHANGED clientVars
    /\ UNCHANGED windowVars
    /\ UNCHANGED valueVars

SetViewState(st) ==
    /\ svSignals' = st.signals
    /\ svEnableState' = st.enable_state
    /\ svEnabledSignals' = st.enabled_signals
    /\ svPanicked' = st.panic

\* MainView::view creates the SignalsView and applies FetchSignals to it
FetchSignals ==
    /\ svSignals.tag = "Initial"
    /\ SetViewState(apply(ViewState, Action("FetchSignals", {}, NoSignal), active_plot_id))
    /\ UNCHANGED << active_plot_id, cacheEnabled, nclicks >>
    /\ ViewUnchangedRest

\* One frame of the UI with the signals view in it
Render(clicked) ==
    /\ ~svPanicked /\ svSignals.tag # "Initial"
    /\ clicked # NoSignal => nclicks < MaxClicks
    /\ SetViewState(render(ViewState, clicked, active_plot_id))
    /\ nclicks' = IF clicked = NoSignal THEN nclicks ELSE nclicks + 1
    /\ UNCHANGED << active_plot_id, cacheEnabled >>
    /\ ViewUnchangedRest

\* The task of the process of FetchSignals finishes: client.get_frames()
FetchDone(ok) ==
    /\ ~svPanicked
    /\ svSignals.tag = "Loading" /\ ~svSignals.proc.done
    /\ svSignals' = [svSignals EXCEPT !.proc = [done |-> TRUE, ok |-> ok,
                                                frames |-> IF ok THEN cacheEnabled ELSE {}]]
    /\ UNCHANGED << svEnableState, svEnabledSignals, svPanicked, active_plot_id, cacheEnabled,
                    nclicks >>
    /\ ViewUnchangedRest

\* The task of the process of an EnableSignal or a DisableSignal finishes:
\* client.enable_frame or disable_frame, whose Ok sets the flag of the
\* client's descriptor, then client.get_frames()
EnableDone(ok) ==
    /\ ~svPanicked
    /\ svEnableState.tag # "Idle" /\ ~svEnableState.proc.done
    /\ LET frame_id == svEnableState.signal_id[1]
           flags == IF ~ok THEN cacheEnabled
                    ELSE IF svEnableState.tag = "EnablingSignal"
                         THEN cacheEnabled \cup { frame_id }
                    ELSE cacheEnabled \ { frame_id }
       IN  /\ cacheEnabled' = flags
           /\ svEnableState' = [svEnableState EXCEPT
                                   !.proc = [done |-> TRUE, ok |-> ok,
                                             frames |-> IF ok THEN flags ELSE {}]]
    /\ UNCHANGED << svSignals, svEnabledSignals, svPanicked, active_plot_id, nclicks >>
    /\ ViewUnchangedRest

\* MainViewState::apply stores the plot the user selected
SelectPlot(id) ==
    /\ ~svPanicked /\ id # active_plot_id
    /\ active_plot_id' = id
    /\ UNCHANGED << svSignals, svEnableState, svEnabledSignals, svPanicked, cacheEnabled,
                    nclicks >>
    /\ ViewUnchangedRest

ViewNext ==
    \/ FetchSignals
    \/ \E clicked \in ViewSignals \cup { NoSignal } : Render(clicked)
    \/ \E ok \in BOOLEAN : FetchDone(ok)
    \/ \E ok \in BOOLEAN : EnableDone(ok)
    \/ \E id \in PlotIds : SelectPlot(id)

SpecView == Init /\ [][ViewNext]_vars

\* C35: the assert! of EnableSignal never fails: the UI thread does not
\* panic, that is, no EnableSignal is applied while enable_state is
\* EnablingSignal or DisablingSignal.
C35_EnableOnlyWhenIdle == ~svPanicked
====
